---- MODULE Spec2Model ----
(***************************************************************************)
(* A model of the merge engine of web_sheet_excel (src/lib/excel-utils.ts):*)
(* the column codec, the cell value extractor, the three row classifiers,  *)
(* the row copier and the orchestrator mergeExcelFiles, which is modelled  *)
(* as a state machine taking one step per loop iteration of the code.      *)
(*                                                                         *)
(* Text is a sequence of one-character strings, so that trimming, case     *)
(* folding, substring search and number parsing are computed, not assumed. *)
(***************************************************************************)
EXTENDS Integers, Sequences, FiniteSets, TLC

(***************************************************************************)
(* Bounds of the model.                                                    *)
(***************************************************************************)
\* files per merge call
MaxFiles == 2
\* sheets per workbook
MaxSheets == 2
\* rows per sheet
MaxRows == 3
\* size of the input of one merge call: its sheets plus their rows
MaxSize == 6
\* largest configured startRow
MaxStartRow == 2

\* "no row": findTotalRow and findSignatureRow return null, which the code
\* only ever tests for truthiness, as it does the number 0.
None == 0

(***************************************************************************)
(* Text.                                                                   *)
(***************************************************************************)
LowerChars == <<"a","b","c","d","e","f","g","h","i","j","k","l","m","n","o","p","q",
                "r","s","t","u","v","w","x","y","z","ư","ờ","ậ","ế","ữ","ý","ử">>
UpperChars == <<"A","B","C","D","E","F","G","H","I","J","K","L","M","N","O","P","Q",
                "R","S","T","U","V","W","X","Y","Z","Ư","Ờ","Ậ","Ế","Ữ","Ý","Ử">>
Digits == <<"0","1","2","3","4","5","6","7","8","9">>

IndexIn(c, chars) ==
  IF \E i \in 1..Len(chars) : chars[i] = c
  THEN CHOOSE i \in 1..Len(chars) : chars[i] = c
  ELSE 0

ToUpperCase(s) ==
  [i \in 1..Len(s) |->
     IF IndexIn(s[i], LowerChars) # 0 THEN UpperChars[IndexIn(s[i], LowerChars)] ELSE s[i]]

ToLowerCase(s) ==
  [i \in 1..Len(s) |->
     IF IndexIn(s[i], UpperChars) # 0 THEN LowerChars[IndexIn(s[i], UpperChars)] ELSE s[i]]

RECURSIVE TrimStart(_)
TrimStart(s) == IF s # <<>> /\ Head(s) = " " THEN TrimStart(Tail(s)) ELSE s

RECURSIVE TrimEnd(_)
TrimEnd(s) ==
  IF s # <<>> /\ s[Len(s)] = " " THEN TrimEnd(SubSeq(s, 1, Len(s) - 1)) ELSE s

Trim(s) == TrimEnd(TrimStart(s))

\* String.prototype.includes
Includes(s, kw) ==
  \E i \in 1..(Len(s) - Len(kw) + 1) : SubSeq(s, i, i + Len(kw) - 1) = kw

\* strValue.replace(/,/g, '')
RECURSIVE StripCommas(_)
StripCommas(s) ==
  IF s = <<>> THEN <<>>
  ELSE IF Head(s) = "," THEN StripCommas(Tail(s))
  ELSE <<Head(s)>> \o StripCommas(Tail(s))

\* !isNaN(Number(t)) for the texts of the model: the empty text is 0, a
\* decimal numeral with an optional sign and an optional fraction is a
\* number, and anything else is NaN.
AllDigits(s) == \A i \in 1..Len(s) : IndexIn(s[i], Digits) # 0
IsNumberText(t) ==
  LET u == IF t # <<>> /\ Head(t) \in {"-", "+"} THEN Tail(t) ELSE t
  IN  \/ t = <<>>
      \/ /\ u # <<>>
         /\ \E k \in 0..Len(u) :
              /\ AllDigits(SubSeq(u, 1, k))
              /\ \/ k = Len(u)
                 \/ /\ k < Len(u)
                    /\ u[k + 1] = "."
                    /\ AllDigits(SubSeq(u, k + 2, Len(u)))
                    /\ Len(u) > 1

\* Number.prototype.toString for the integers of the model
RECURSIVE NatToString(_)
NatToString(n) ==
  IF n < 10 THEN <<Digits[n + 1]>>
  ELSE NatToString(n \div 10) \o <<Digits[(n % 10) + 1]>>
NumberToString(n) == IF n < 0 THEN <<"-">> \o NatToString(-n) ELSE NatToString(n)

(***************************************************************************)
(* Cells.  The value of a cell is null, a string, a number, a formula      *)
(* object (with or without a cached result) or a rich text (a list of      *)
(* runs).                                                                  *)
(***************************************************************************)
Null == [t |-> "null"]
Str(s) == [t |-> "str", v |-> s]
Num(n) == [t |-> "num", v |-> n]
Formula(f, r) == [t |-> "formula", f |-> f, result |-> r]
RichText(runs) == [t |-> "rich", runs |-> runs]
Bool(b) == [t |-> "bool", v |-> b]
\* a Date object, by its day number
Date(d) == [t |-> "date", v |-> d]
\* an error value: { error: '#DIV/0!' }
ErrorValue(e) == [t |-> "error", error |-> e]
\* a hyperlink value: { text, hyperlink }
Hyperlink(text, link) == [t |-> "hyperlink", text |-> text, hyperlink |-> link]

(***************************************************************************)
(* The rows a sheet of the model may hold, over the columns A..F.          *)
(***************************************************************************)
\* a data row: a label, a rich-text name, a figure, a formula with its
\* cached result
DataRow ==
  <<Str(<<"a","1">>), RichText(<< <<"b">>, <<"c">> >>), Num(12), Null, Null,
    Formula("f", Str(<<"x">>))>>
\* a group total: one figure, written as text with a thousands separator
SubtotalRow ==
  <<Null, Null, Str(<<"1",",","5","0","0">>), Null, Null, Null>>
\* a row labelled " Total" in column A
TotalRow ==
  <<Str(<<" ","T","o","t","a","l">>), Null, Num(40), Null, Null, Null>>
\* a row holding a signature keyword in column B
SignatureRow ==
  <<Null, Str(<<"S","i","g","n","a","t","u","r","e",":">>), Null, Null, Null, Null>>
\* a row holding both a TOTAL cell and a signature keyword
TotalSignatureRow ==
  <<Null, Str(<<"T","O","T","A","L">>), Null, Null, Str(<<"C","h","ữ"," ","k","ý">>), Null>>

RowCatalog == {DataRow, SubtotalRow, TotalRow, SignatureRow, TotalSignatureRow}

\* row.height, in points: the total row and the signature rows were given a
\* height of their own, the other rows have none (undefined)
RowHeight(row) ==
  IF row = TotalRow THEN 24
  ELSE IF row \in {SignatureRow, TotalSignatureRow} THEN 30
  ELSE 0

\* the columns of a sheet
Cols == DOMAIN DataRow

\* cell.value?.toString()
ObjectText == <<"[","o","b","j","e","c","t"," ","O","b","j","e","c","t","]">>
\* Date.prototype.toString(): "Thu Jan 29 2026 ..."
DateText(d) == <<"T","h","u"," ","J","a","n"," ">> \o NatToString(d)
ValueToString(v) ==
  CASE v.t = "str" -> v.v
    [] v.t = "num" -> NumberToString(v.v)
    [] v.t = "bool" -> IF v.v THEN <<"t","r","u","e">> ELSE <<"f","a","l","s","e">>
    [] v.t = "date" -> DateText(v.v)
    [] OTHER -> ObjectText

\* row.getCell(c): a column past the last one holds no value
GetCell(row, c) == IF c \in DOMAIN row THEN row[c] ELSE Null

\* row.eachCell visits the cells that hold a value
EachCell(row) == {c \in Cols : row[c] # Null}
\* worksheet.eachRow visits the rows that hold a value
HasValues(row) == EachCell(row) # {}

(***************************************************************************)
(* Row classifiers.                                                        *)
(***************************************************************************)
TotalText == <<"T","O","T","A","L">>

\* the test of line 24 with includes('TOTAL') in the place of ===
RowHasTotalIncluded(row) ==
  \E c \in EachCell(row) : Includes(ToUpperCase(Trim(ValueToString(row[c]))), TotalText)

RowHasTotal(row) ==
  \E c \in EachCell(row) : ToUpperCase(Trim(ValueToString(row[c]))) = TotalText

findTotalRow(sheet) ==
  LET hits == {r \in 1..Len(sheet) : HasValues(sheet[r]) /\ RowHasTotal(sheet[r])}
  IN  IF hits = {} THEN None ELSE CHOOSE r \in hits : \A q \in hits : r <= q

CellClass(v) ==
  IF v = Null \/ v = Str(<<>>) THEN "empty"
  ELSE IF v.t = "num" THEN "numeric"
  ELSE LET strValue == Trim(ValueToString(v))
       IN  IF strValue = <<>> THEN "empty"
           ELSE IF IsNumberText(StripCommas(strValue)) THEN "numeric"
           ELSE "text"

\* isSubtotalRow with emptyRatio > 0.7 on line 78
isSubtotalRowAboveRatio(row, startCol, endCol) ==
  LET emptyCellCount == Cardinality({c \in startCol..endCol : CellClass(GetCell(row, c)) = "empty"})
      numericCellCount == Cardinality({c \in startCol..endCol : CellClass(GetCell(row, c)) = "numeric"})
      textCellCount == Cardinality({c \in startCol..endCol : CellClass(GetCell(row, c)) = "text"})
      totalCells == endCol - startCol + 1
  IN  /\ emptyCellCount * 10 > 7 * totalCells
      /\ numericCellCount >= 1
      /\ numericCellCount <= 3
      /\ textCellCount = 0

\* isSubtotalRow with a ratio of 0.6 on line 78
isSubtotalRowLowerRatio(row, startCol, endCol) ==
  LET emptyCellCount == Cardinality({c \in startCol..endCol : CellClass(GetCell(row, c)) = "empty"})
      numericCellCount == Cardinality({c \in startCol..endCol : CellClass(GetCell(row, c)) = "numeric"})
      textCellCount == Cardinality({c \in startCol..endCol : CellClass(GetCell(row, c)) = "text"})
      totalCells == endCol - startCol + 1
  IN  /\ emptyCellCount * 10 >= 6 * totalCells
      /\ numericCellCount >= 1
      /\ numericCellCount <= 3
      /\ textCellCount = 0

isSubtotalRow(row, startCol, endCol) ==
  LET emptyCellCount == Cardinality({c \in startCol..endCol : CellClass(GetCell(row, c)) = "empty"})
      numericCellCount == Cardinality({c \in startCol..endCol : CellClass(GetCell(row, c)) = "numeric"})
      textCellCount == Cardinality({c \in startCol..endCol : CellClass(GetCell(row, c)) = "text"})
      totalCells == endCol - startCol + 1
  IN  \* emptyCellCount / totalCells >= 0.7
      /\ emptyCellCount * 10 >= 7 * totalCells
      /\ numericCellCount >= 1
      /\ numericCellCount <= 3
      /\ textCellCount = 0

signatureKeywords ==
  << <<"n","g","ư","ờ","i"," ","l","ậ","p"," ","p","h","i","ế","u">>,
     <<"n","g","ư","ờ","i"," ","n","h","ậ","n">>,
     <<"s","i","g","n","a","t","u","r","e"," ","o","f"," ","s","e","n","d","e","r">>,
     <<"c","h","ữ"," ","k","ý"," ","n","g","ư","ờ","i"," ","g","ử","i">>,
     <<"s","i","g","n","a","t","u","r","e">>,
     <<"c","h","ữ"," ","k","ý">> >>

\* the test of lines 92-106 without toLowerCase()
RowHasSignatureCaseKept(row) ==
  \E c \in EachCell(row) :
    LET cellValue == Trim(ValueToString(row[c]))
    IN  /\ cellValue # <<>>
        /\ \E k \in 1..Len(signatureKeywords) : Includes(cellValue, signatureKeywords[k])

RowHasSignature(row) ==
  \E c \in EachCell(row) :
    LET cellValue == ToLowerCase(Trim(ValueToString(row[c])))
    IN  /\ cellValue # <<>>
        /\ \E k \in 1..Len(signatureKeywords) : Includes(cellValue, signatureKeywords[k])

findSignatureRow(sheet) ==
  LET hits == {r \in 1..Len(sheet) : HasValues(sheet[r]) /\ RowHasSignature(sheet[r])}
  IN  IF hits = {} THEN None ELSE CHOOSE r \in hits : \A q \in hits : r <= q

(***************************************************************************)
(* Column codec.  A column name is a sequence of letter codes 1..26        *)
(* (charCodeAt(i) - 64).                                                   *)
(***************************************************************************)
RECURSIVE LetterFold(_, _)
LetterFold(letter, result) ==
  IF letter = <<>> THEN result
  ELSE LetterFold(Tail(letter), result * 26 + Head(letter))

columnLetterToNumber(letter) == LetterFold(letter, 0)

\* the while loop of columnNumberToLetter without its num--
RECURSIVE NumberUnfoldNoDecrement(_, _)
NumberUnfoldNoDecrement(num, letter) ==
  IF num > 0
  THEN NumberUnfoldNoDecrement(num \div 26, <<(num % 26) + 1>> \o letter)
  ELSE letter

RECURSIVE NumberUnfold(_, _)
NumberUnfold(num, letter) ==
  IF num > 0
  THEN NumberUnfold((num - 1) \div 26, <<((num - 1) % 26) + 1>> \o letter)
  ELSE letter

columnNumberToLetter(num) == NumberUnfold(num, <<>>)

(***************************************************************************)
(* Cell value extractor and row copier.                                    *)
(***************************************************************************)
RECURSIVE JoinRuns(_)
JoinRuns(runs) == IF runs = <<>> THEN <<>> ELSE Head(runs) \o JoinRuns(Tail(runs))

\* A formula without a cached result carries Null as its result.  A date, an
\* error value and a hyperlink are objects to typeof (line 165): of these
\* only the hyperlink has one of the properties lines 168-181 look for.
extractSafeCellValue(v) ==
  CASE v.t = "null" -> Null
    [] v.t = "formula" -> v.result
    [] v.t = "rich" -> Str(JoinRuns(v.runs))
    [] v.t = "hyperlink" -> Str(v.text)
    [] v.t \in {"date", "error"} -> Null
    [] OTHER -> v

\* copyRowWithFormatting writing the window's cells from column A on
copyRowWithFormattingShifted(sourceRow, targetRow, startCol, endCol) ==
  [c \in Cols |->
     LET from == c + startCol - 1
     IN  IF from \in startCol..endCol /\ extractSafeCellValue(sourceRow[from]) # Null
         THEN extractSafeCellValue(sourceRow[from])
         ELSE targetRow[c]]

\* The cells of the target row after copyRowWithFormatting: the window's
\* cells that extract to a value are assigned at the same column index.
copyRowWithFormatting(sourceRow, targetRow, startCol, endCol) ==
  [c \in Cols |->
     IF c \in startCol..endCol /\ extractSafeCellValue(sourceRow[c]) # Null
     THEN extractSafeCellValue(sourceRow[c])
     ELSE targetRow[c]]

\* worksheet.getRow(n) of a row never touched: no cell holds a value
EmptyRow == [c \in Cols |-> Null]

(***************************************************************************)
(* Inputs: the rows a sheet may hold, the sheets, the workbooks.           *)
(***************************************************************************)
Min(a, b) == IF a < b THEN a ELSE b

\* the sheets of 1..n rows
SheetsUpTo(n) == UNION {[1..k -> RowCatalog] : k \in 1..n}

\* the lists of k sheets of at most budget sheets and rows together
RECURSIVE SheetLists(_, _)
SheetLists(k, budget) ==
  IF k = 0 THEN {<<>>}
  ELSE UNION {{<<sh>> \o rest : rest \in SheetLists(k - 1, budget - Len(sh) - 1)} :
                sh \in SheetsUpTo(Min(MaxRows, budget - 1))}

\* the ways to cut a list of sheets into workbooks of 1..MaxSheets sheets
RECURSIVE Cuts(_, _)
Cuts(sheets, nfiles) ==
  IF sheets = <<>> THEN {<<>>}
  ELSE IF nfiles = 0 THEN {}
  ELSE UNION {{<<SubSeq(sheets, 1, k)>> \o rest :
                 rest \in Cuts(SubSeq(sheets, k + 1, Len(sheets)), nfiles - 1)} :
                k \in 1..Min(MaxSheets, Len(sheets))}

\* the file lists of a merge call: 1..MaxFiles workbooks
FileLists ==
  UNION {UNION {Cuts(sl, MaxFiles) : sl \in SheetLists(n, MaxSize)} :
           n \in 1..(MaxFiles * MaxSheets)}

\* the column windows a config may name: A..F and B..E
Windows == {<< <<1>>, <<6>> >>, << <<2>>, <<5>> >>}

Configs ==
  {[includeTotal |-> it, startRow |-> sr, startColumn |-> w[1], endColumn |-> w[2],
    includeSignature |-> is] :
     it \in BOOLEAN, sr \in 1..MaxStartRow, w \in Windows, is \in BOOLEAN}

(***************************************************************************)
(* mergeExcelFiles.                                                        *)
(***************************************************************************)
VARIABLES
  files,               \* the workbooks parsed from the files argument
  config,              \* the config argument
  pc,                  \* where the call stands
  fileIdx,             \* the file of the for-of loop
  sheetIdx,            \* the sheet of the forEach
  rowNum,              \* rowNum of the header loop, then of the data loop
  totalRowNum,         \* findTotalRow(sourceSheet)
  signatureRowNum,     \* findSignatureRow(sourceSheet)
  lastRow,             \* sourceSheet.lastRow?.number || 0
  targetRowNum,        \* the output cursor
  isFirstSheet,
  signatureRowsToAdd,  \* the signature buffer: <<file, sheet, row>> triples
  sigIdx,              \* the position of the for-of loop over the buffer
  worksheet,           \* the Consolidated sheet: the rows written so far
  codecPc,             \* the column codec at work: where it stands,
  codecIn,             \*   its argument,
  codecOut,            \*   its result,
  codecBack,           \*   and the inverse conversion's result for it
  sheetNames,          \* the names of the sheets of the workbooks in files
  corrupt,             \* the files that xlsx.load fails to parse
  configData,          \* the config field of the request
  response,            \* the response of POST
  attempts,            \* the calls of xlsx.writeBuffer so far
  cleanWorkbook,       \* the workbook rebuilt after a failed writeBuffer
  suspended,           \* the locals of a second call waiting at an await
  running,             \* the call that runs: 1 or 2
  probePc,             \* a helper called on its own: where the call stands,
  probeArg,            \*   its argument,
  probeResult,         \*   its result,
  probeCell            \*   and the cell its result was assigned to

mergeVars == <<files, config, pc, fileIdx, sheetIdx, rowNum, totalRowNum, signatureRowNum,
               lastRow, targetRowNum, isFirstSheet, signatureRowsToAdd, sigIdx,
               worksheet>>
codecVars == <<codecPc, codecIn, codecOut, codecBack>>
requestVars == <<sheetNames, corrupt, configData, response>>
fallbackVars == <<attempts, cleanWorkbook>>
probeVars == <<probePc, probeArg, probeResult, probeCell>>
callVars == <<suspended, running>>
envVars == <<requestVars, fallbackVars, callVars, probeVars>>
vars == <<mergeVars, codecVars, envVars>>

\* the codec is not being exercised
CodecIdle ==
  /\ codecPc = "idle"
  /\ codecIn = 0
  /\ codecOut = 0
  /\ codecBack = 0

\* no helper is being called on its own
ProbeIdle ==
  /\ probePc = "idle"
  /\ probeArg = 0
  /\ probeResult = 0
  /\ probeCell = 0

\* a sheet name: "Sheet1", "Sheet2", ... or "Consolidated"
SheetName(s) == [text |-> "Sheet", n |-> s]
Consolidated == [text |-> "Consolidated", n |-> 0]

\* the workbooks' sheets bear the names a new workbook gives them
PlainNames(fs) == [f \in DOMAIN fs |-> [s \in DOMAIN fs[f] |-> SheetName(s)]]

NoResponse == [status |-> 0, body |-> "none"]

\* mergeExcelFiles is called on its own, on files that parse
DirectCall ==
  /\ sheetNames = PlainNames(files)
  /\ corrupt = {}
  /\ configData = "none"
  /\ response = NoResponse
  /\ attempts = 0
  /\ cleanWorkbook = <<>>
  /\ suspended = <<>>
  /\ running = 1
  /\ ProbeIdle

startColNum == columnLetterToNumber(config.startColumn)
endColNum == columnLetterToNumber(config.endColumn)
startRowNum == config.startRow

sourceSheet == files[fileIdx][sheetIdx]

\* the first row of the data loop (line 354)
DataStartRow == startRowNum

\* sourceSheet.getRow(n): a row past the last one holds no value
GetRow(sheet, n) == IF n \in 1..Len(sheet) THEN sheet[n] ELSE EmptyRow

\* the current content of output row n
TargetCells(n) ==
  IF \E w \in worksheet : w.n = n
  THEN (CHOOSE w \in worksheet : w.n = n).cells
  ELSE EmptyRow

\* the height of output row n: undefined (0) for a row of a new sheet
TargetHeight(n) ==
  IF \E w \in worksheet : w.n = n
  THEN (CHOOSE w \in worksheet : w.n = n).height
  ELSE 0

\* worksheet.getRow(targetRowNum); copyRowWithFormatting(...); targetRow.commit().
\* Each output row remembers the source row it was copied from, the rule that
\* copied it and its rank among the writes.  No line assigns targetRow.height:
\* the row keeps the height it had.
WriteRow(f, s, r, via) ==
  worksheet' =
    {w \in worksheet : w.n # targetRowNum} \cup
    {[n |-> targetRowNum,
      cells |-> copyRowWithFormatting(GetRow(files[f][s], r), TargetCells(targetRowNum),
                                      startColNum, endColNum),
      src |-> <<f, s, r>>,
      via |-> via,
      seq |-> Cardinality(worksheet) + 1,
      height |-> TargetHeight(targetRowNum)]}

Init ==
  /\ files \in FileLists
  /\ config \in Configs
  /\ pc = "begin"
  /\ fileIdx = 0
  /\ sheetIdx = 0
  /\ rowNum = 0
  /\ totalRowNum = None
  /\ signatureRowNum = None
  /\ lastRow = 0
  /\ targetRowNum = 0
  /\ isFirstSheet = TRUE
  /\ signatureRowsToAdd = <<>>
  /\ sigIdx = 0
  /\ worksheet = {}
  /\ CodecIdle
  /\ DirectCall

\* lines 299-320: the base workbook, the Consolidated sheet, the locals
Begin ==
  /\ pc = "begin"
  /\ 1 \notin corrupt
  /\ targetRowNum' = 1
  /\ isFirstSheet' = TRUE
  /\ signatureRowsToAdd' = <<>>
  /\ fileIdx' = 1
  /\ pc' = "file"
  /\ UNCHANGED codecVars
  /\ UNCHANGED envVars
  /\ UNCHANGED <<files, config, sheetIdx, rowNum, totalRowNum, signatureRowNum, lastRow,
                 sigIdx, worksheet>>

\* lines 322-325 with a file that does not parse taken as an empty workbook
LoadFileUnparsed ==
  /\ pc = "file"
  /\ fileIdx <= Len(files)
  /\ IF fileIdx \in corrupt
     THEN fileIdx' = fileIdx + 1 /\ UNCHANGED <<sheetIdx, pc>>
     ELSE sheetIdx' = 1 /\ pc' = "sheet" /\ UNCHANGED fileIdx
  /\ UNCHANGED codecVars
  /\ UNCHANGED envVars
  /\ UNCHANGED <<files, config, rowNum, totalRowNum, signatureRowNum, lastRow,
                 targetRowNum, isFirstSheet, signatureRowsToAdd, sigIdx, worksheet>>

\* lines 322-325: the next file is read and parsed
LoadFile ==
  /\ pc = "file"
  /\ fileIdx <= Len(files)
  /\ fileIdx \notin corrupt
  /\ sheetIdx' = 1
  /\ pc' = "sheet"
  /\ UNCHANGED codecVars
  /\ UNCHANGED envVars
  /\ UNCHANGED <<files, config, fileIdx, rowNum, totalRowNum, signatureRowNum, lastRow,
                 targetRowNum, isFirstSheet, signatureRowsToAdd, sigIdx, worksheet>>

\* lines 328-339, 353: a sheet's callback starts: the special rows are found.
\* (lastRow is read on line 353, after the header loop, whose getRow calls can
\* only add empty rows below startRow to the source sheet.)
BeginSheet ==
  /\ pc = "sheet"
  /\ sheetIdx <= Len(files[fileIdx])
  /\ totalRowNum' = findTotalRow(sourceSheet)
  /\ signatureRowNum' = findSignatureRow(sourceSheet)
  /\ lastRow' = Len(sourceSheet)
  /\ rowNum' = IF isFirstSheet THEN 1 ELSE DataStartRow
  /\ pc' = IF isFirstSheet THEN "header" ELSE "scan"
  /\ UNCHANGED codecVars
  /\ UNCHANGED envVars
  /\ UNCHANGED <<files, config, fileIdx, sheetIdx, targetRowNum, isFirstSheet,
                 signatureRowsToAdd, sigIdx, worksheet>>

\* line 328: the forEach is over, the for-of loop goes to the next file
EndFile ==
  /\ pc = "sheet"
  /\ sheetIdx > Len(files[fileIdx])
  /\ fileIdx' = fileIdx + 1
  /\ pc' = "file"
  /\ UNCHANGED codecVars
  /\ UNCHANGED envVars
  /\ UNCHANGED <<files, config, sheetIdx, rowNum, totalRowNum, signatureRowNum, lastRow,
                 targetRowNum, isFirstSheet, signatureRowsToAdd, sigIdx, worksheet>>

\* CopyHeaderRow without line 345 (targetRowNum++)
CopyHeaderRowNoAdvance ==
  /\ pc = "header"
  /\ rowNum < startRowNum
  /\ WriteRow(fileIdx, sheetIdx, rowNum, "header")
  /\ rowNum' = rowNum + 1
  /\ UNCHANGED codecVars
  /\ UNCHANGED envVars
  /\ UNCHANGED <<files, config, pc, fileIdx, sheetIdx, totalRowNum, signatureRowNum,
                 lastRow, targetRowNum, isFirstSheet, signatureRowsToAdd, sigIdx>>

\* lines 340-346: one header row of the first sheet
CopyHeaderRow ==
  /\ pc = "header"
  /\ rowNum < startRowNum
  /\ WriteRow(fileIdx, sheetIdx, rowNum, "header")
  /\ targetRowNum' = targetRowNum + 1
  /\ rowNum' = rowNum + 1
  /\ UNCHANGED codecVars
  /\ UNCHANGED envVars
  /\ UNCHANGED <<files, config, pc, fileIdx, sheetIdx, totalRowNum, signatureRowNum,
                 lastRow, isFirstSheet, signatureRowsToAdd, sigIdx>>

\* lines 340, 349-354: the header loop is over, the data loop starts
EndHeader ==
  /\ pc = "header"
  /\ rowNum >= startRowNum
  /\ rowNum' = DataStartRow
  /\ pc' = "scan"
  /\ UNCHANGED codecVars
  /\ UNCHANGED envVars
  /\ UNCHANGED <<files, config, fileIdx, sheetIdx, totalRowNum, signatureRowNum,
                 lastRow, targetRowNum, isFirstSheet, signatureRowsToAdd, sigIdx,
                 worksheet>>

\* the four rules of the data loop, in the order the code tests them
IsTotalRow == totalRowNum # None /\ rowNum = totalRowNum
IsSignatureRow == signatureRowNum # None /\ rowNum >= signatureRowNum
\* the subtotal rule without its test of includeTotal
IsSkippedSubtotalAlways ==
  isSubtotalRow(GetRow(sourceSheet, rowNum), startColNum, endColNum)

\* the subtotal rule with its negation lost
IsSkippedSubtotalInverted ==
  config.includeTotal /\ isSubtotalRow(GetRow(sourceSheet, rowNum), startColNum, endColNum)

IsSkippedSubtotal ==
  ~config.includeTotal /\ isSubtotalRow(GetRow(sourceSheet, rowNum), startColNum, endColNum)

\* the total rule with the includeTotal test inverted
ScanTotalInverted ==
  /\ pc = "scan"
  /\ rowNum <= lastRow
  /\ IsTotalRow
  /\ IF ~config.includeTotal
     THEN /\ WriteRow(fileIdx, sheetIdx, rowNum, "total")
          /\ targetRowNum' = targetRowNum + 1
     ELSE UNCHANGED <<worksheet, targetRowNum>>
  /\ rowNum' = rowNum + 1
  /\ UNCHANGED codecVars
  /\ UNCHANGED envVars
  /\ UNCHANGED <<files, config, pc, fileIdx, sheetIdx, totalRowNum, signatureRowNum,
                 lastRow, isFirstSheet, signatureRowsToAdd, sigIdx>>

\* lines 358-366: the total row
ScanTotal ==
  /\ pc = "scan"
  /\ rowNum <= lastRow
  /\ IsTotalRow
  /\ IF config.includeTotal
     THEN /\ WriteRow(fileIdx, sheetIdx, rowNum, "total")
          /\ targetRowNum' = targetRowNum + 1
     ELSE UNCHANGED <<worksheet, targetRowNum>>
  /\ rowNum' = rowNum + 1
  /\ UNCHANGED codecVars
  /\ UNCHANGED envVars
  /\ UNCHANGED <<files, config, pc, fileIdx, sheetIdx, totalRowNum, signatureRowNum,
                 lastRow, isFirstSheet, signatureRowsToAdd, sigIdx>>

\* the signature section of every sheet is saved
ShouldCaptureAlways == config.includeSignature

\* the signature section is saved whatever includeSignature says
ShouldCaptureUnasked == Len(signatureRowsToAdd) = 0

\* line 370: the signature section is saved only while the buffer is empty
ShouldCapture == config.includeSignature /\ Len(signatureRowsToAdd) = 0

\* the signature rule pushing the signature row alone
CapturedRowsFirstOnly == <<<<fileIdx, sheetIdx, signatureRowNum>>>>

\* lines 372-377: the rows the signature rule pushes, signatureRowNum..lastRow
CapturedRows == [i \in 1..(lastRow - signatureRowNum + 1) |->
                   <<fileIdx, sheetIdx, signatureRowNum + i - 1>>]

\* lines 369-380, 394-396: the signature section ends the data loop and with
\* it the sheet's callback
ScanSignature ==
  /\ pc = "scan"
  /\ rowNum <= lastRow
  /\ ~IsTotalRow
  /\ IsSignatureRow
  /\ signatureRowsToAdd' =
       IF ShouldCapture THEN signatureRowsToAdd \o CapturedRows ELSE signatureRowsToAdd
  /\ isFirstSheet' = FALSE
  /\ sheetIdx' = sheetIdx + 1
  /\ pc' = "sheet"
  /\ UNCHANGED codecVars
  /\ UNCHANGED envVars
  /\ UNCHANGED <<files, config, fileIdx, rowNum, totalRowNum, signatureRowNum,
                 lastRow, targetRowNum, sigIdx, worksheet>>

\* the subtotal rule in a loop that does not move to the next row
ScanSubtotalSameRow ==
  /\ pc = "scan"
  /\ rowNum <= lastRow
  /\ ~IsTotalRow
  /\ ~IsSignatureRow
  /\ IsSkippedSubtotal
  /\ rowNum' = rowNum
  /\ UNCHANGED codecVars
  /\ UNCHANGED envVars
  /\ UNCHANGED <<files, config, pc, fileIdx, sheetIdx, totalRowNum, signatureRowNum,
                 lastRow, targetRowNum, isFirstSheet, signatureRowsToAdd, sigIdx,
                 worksheet>>

\* lines 383-385: a subtotal row is skipped
ScanSubtotal ==
  /\ pc = "scan"
  /\ rowNum <= lastRow
  /\ ~IsTotalRow
  /\ ~IsSignatureRow
  /\ IsSkippedSubtotal
  /\ rowNum' = rowNum + 1
  /\ UNCHANGED codecVars
  /\ UNCHANGED envVars
  /\ UNCHANGED <<files, config, pc, fileIdx, sheetIdx, totalRowNum, signatureRowNum,
                 lastRow, targetRowNum, isFirstSheet, signatureRowsToAdd, sigIdx,
                 worksheet>>

\* the plain copy reached without the signature rule tested before it
ScanCopyBeforeSignature ==
  /\ pc = "scan"
  /\ rowNum <= lastRow
  /\ ~IsTotalRow
  /\ ~IsSkippedSubtotal
  /\ WriteRow(fileIdx, sheetIdx, rowNum, "data")
  /\ targetRowNum' = targetRowNum + 1
  /\ rowNum' = rowNum + 1
  /\ UNCHANGED codecVars
  /\ UNCHANGED envVars
  /\ UNCHANGED <<files, config, pc, fileIdx, sheetIdx, totalRowNum, signatureRowNum,
                 lastRow, isFirstSheet, signatureRowsToAdd, sigIdx>>

\* lines 388-391: a regular data row
ScanCopy ==
  /\ pc = "scan"
  /\ rowNum <= lastRow
  /\ ~IsTotalRow
  /\ ~IsSignatureRow
  /\ ~IsSkippedSubtotal
  /\ WriteRow(fileIdx, sheetIdx, rowNum, "data")
  /\ targetRowNum' = targetRowNum + 1
  /\ rowNum' = rowNum + 1
  /\ UNCHANGED codecVars
  /\ UNCHANGED envVars
  /\ UNCHANGED <<files, config, pc, fileIdx, sheetIdx, totalRowNum, signatureRowNum,
                 lastRow, isFirstSheet, signatureRowsToAdd, sigIdx>>

\* EndSheet without line 395 (isFirstSheet = false)
EndSheetStillFirst ==
  /\ pc = "scan"
  /\ rowNum > lastRow
  /\ sheetIdx' = sheetIdx + 1
  /\ pc' = "sheet"
  /\ UNCHANGED codecVars
  /\ UNCHANGED envVars
  /\ UNCHANGED <<files, config, fileIdx, rowNum, totalRowNum, signatureRowNum, lastRow,
                 targetRowNum, isFirstSheet, signatureRowsToAdd, sigIdx, worksheet>>

\* lines 354, 394-396: the data loop is over and the sheet's callback ends
EndSheet ==
  /\ pc = "scan"
  /\ rowNum > lastRow
  /\ isFirstSheet' = FALSE
  /\ sheetIdx' = sheetIdx + 1
  /\ pc' = "sheet"
  /\ UNCHANGED codecVars
  /\ UNCHANGED envVars
  /\ UNCHANGED <<files, config, fileIdx, rowNum, totalRowNum, signatureRowNum, lastRow,
                 targetRowNum, signatureRowsToAdd, sigIdx, worksheet>>

\* lines 322, 399-401: the file loop is over
EndFiles ==
  /\ pc = "file"
  /\ fileIdx > Len(files)
  /\ sigIdx' = 1
  /\ pc' = "signature"
  /\ UNCHANGED codecVars
  /\ UNCHANGED envVars
  /\ UNCHANGED <<files, config, fileIdx, sheetIdx, rowNum, totalRowNum, signatureRowNum,
                 lastRow, targetRowNum, isFirstSheet, signatureRowsToAdd, worksheet>>

\* the signature loop without targetRowNum++
AppendSignatureRowSameRow ==
  /\ pc = "signature"
  /\ sigIdx <= Len(signatureRowsToAdd)
  /\ LET sig == signatureRowsToAdd[sigIdx]
     IN  WriteRow(sig[1], sig[2], sig[3], "signature")
  /\ sigIdx' = sigIdx + 1
  /\ UNCHANGED codecVars
  /\ UNCHANGED envVars
  /\ UNCHANGED <<files, config, pc, fileIdx, sheetIdx, rowNum, totalRowNum,
                 signatureRowNum, lastRow, isFirstSheet, signatureRowsToAdd, targetRowNum>>

\* lines 402-407: one row of the signature buffer is appended
AppendSignatureRow ==
  /\ pc = "signature"
  /\ sigIdx <= Len(signatureRowsToAdd)
  /\ LET sig == signatureRowsToAdd[sigIdx]
     IN  WriteRow(sig[1], sig[2], sig[3], "signature")
  /\ targetRowNum' = targetRowNum + 1
  /\ sigIdx' = sigIdx + 1
  /\ UNCHANGED codecVars
  /\ UNCHANGED envVars
  /\ UNCHANGED <<files, config, pc, fileIdx, sheetIdx, rowNum, totalRowNum,
                 signatureRowNum, lastRow, isFirstSheet, signatureRowsToAdd>>

\* lines 410-412: the workbook is serialized and returned
Serialize ==
  /\ pc = "signature"
  /\ sigIdx > Len(signatureRowsToAdd)
  /\ attempts' = attempts + 1
  /\ pc' = "done"
  /\ UNCHANGED codecVars
  /\ UNCHANGED <<requestVars, cleanWorkbook, callVars, probeVars>>
  /\ UNCHANGED <<files, config, fileIdx, sheetIdx, rowNum, totalRowNum, signatureRowNum,
                 lastRow, targetRowNum, isFirstSheet, signatureRowsToAdd, sigIdx,
                 worksheet>>

Next ==
  \/ Begin
  \/ LoadFile
  \/ BeginSheet
  \/ EndFile
  \/ CopyHeaderRow
  \/ EndHeader
  \/ ScanTotal
  \/ ScanSignature
  \/ ScanSubtotal
  \/ ScanCopy
  \/ EndSheet
  \/ EndFiles
  \/ AppendSignatureRow
  \/ Serialize

Spec == Init /\ [][Next]_vars

(***************************************************************************)
(* The failures of mergeExcelFiles and its clean rebuild.                  *)
(***************************************************************************)
\* the names of the sheets of workbook f
NamesOf(f) == {sheetNames[f][s] : s \in DOMAIN sheetNames[f]}

\* lines 299-308: the first file does not parse, or addWorksheet refuses the
\* name 'Consolidated' because the base workbook already holds a sheet of
\* that name (an ExcelJS that does not refuse it adds a second one: Begin)
BeginFails ==
  /\ pc = "begin"
  /\ 1 \in corrupt \/ Consolidated \in NamesOf(1)
  /\ pc' = "failed"
  /\ UNCHANGED codecVars
  /\ UNCHANGED envVars
  /\ UNCHANGED <<files, config, fileIdx, sheetIdx, rowNum, totalRowNum, signatureRowNum,
                 lastRow, targetRowNum, isFirstSheet, signatureRowsToAdd, sigIdx,
                 worksheet>>

\* lines 322-325: xlsx.load throws on the next file
LoadFileFails ==
  /\ pc = "file"
  /\ fileIdx <= Len(files)
  /\ fileIdx \in corrupt
  /\ pc' = "failed"
  /\ UNCHANGED codecVars
  /\ UNCHANGED envVars
  /\ UNCHANGED <<files, config, fileIdx, sheetIdx, rowNum, totalRowNum, signatureRowNum,
                 lastRow, targetRowNum, isFirstSheet, signatureRowsToAdd, sigIdx,
                 worksheet>>

\* lines 410-414: baseWorkbook.xlsx.writeBuffer throws
SerializeFails ==
  /\ pc = "signature"
  /\ sigIdx > Len(signatureRowsToAdd)
  /\ attempts' = attempts + 1
  /\ pc' = "fallback"
  /\ UNCHANGED codecVars
  /\ UNCHANGED <<requestVars, cleanWorkbook, callVars, probeVars>>
  /\ UNCHANGED <<files, config, fileIdx, sheetIdx, rowNum, totalRowNum, signatureRowNum,
                 lastRow, targetRowNum, isFirstSheet, signatureRowsToAdd, sigIdx,
                 worksheet>>

\* the rows of the Consolidated sheet by row number
ConsolidatedRows == [n \in 1..(targetRowNum - 1) |-> TargetCells(n)]

\* lines 427-436, 450-457: a row of the rebuilt workbook
CleanRow(row) == [c \in DOMAIN row |-> extractSafeCellValue(row[c])]

RECURSIVE CleanRows(_)
CleanRows(rows) ==
  IF rows = <<>> THEN <<>> ELSE <<CleanRow(Head(rows))>> \o CleanRows(Tail(rows))

\* lines 426, 449: eachRow visits the rows that hold a value, addRow appends
CleanSheet(sheet) == CleanRows(SelectSeq(sheet, HasValues))

\* lines 417-465: the workbook is rebuilt from the first file and the
\* Consolidated sheet
Rebuild ==
  /\ pc = "fallback"
  /\ cleanWorkbook' =
       [names |-> sheetNames[1] \o <<Consolidated>>,
        sheets |-> [s \in DOMAIN files[1] |-> CleanSheet(files[1][s])] \o
                   <<CleanSheet(ConsolidatedRows)>>]
  /\ pc' = "rebuilt"
  /\ UNCHANGED codecVars
  /\ UNCHANGED <<requestVars, attempts, callVars, probeVars>>
  /\ UNCHANGED <<files, config, fileIdx, sheetIdx, rowNum, totalRowNum, signatureRowNum,
                 lastRow, targetRowNum, isFirstSheet, signatureRowsToAdd, sigIdx,
                 worksheet>>

\* lines 467-468: cleanWorkbook.xlsx.writeBuffer returns the buffer
SerializeClean ==
  /\ pc = "rebuilt"
  /\ attempts' = attempts + 1
  /\ pc' = "done"
  /\ UNCHANGED codecVars
  /\ UNCHANGED <<requestVars, cleanWorkbook, callVars, probeVars>>
  /\ UNCHANGED <<files, config, fileIdx, sheetIdx, rowNum, totalRowNum, signatureRowNum,
                 lastRow, targetRowNum, isFirstSheet, signatureRowsToAdd, sigIdx,
                 worksheet>>

\* line 467 inside a loop that tries again
SerializeCleanRetries ==
  /\ pc = "rebuilt"
  /\ attempts' = attempts + 1
  /\ pc' = "fallback"
  /\ UNCHANGED codecVars
  /\ UNCHANGED <<requestVars, cleanWorkbook, callVars, probeVars>>
  /\ UNCHANGED <<files, config, fileIdx, sheetIdx, rowNum, totalRowNum, signatureRowNum,
                 lastRow, targetRowNum, isFirstSheet, signatureRowsToAdd, sigIdx,
                 worksheet>>

\* line 467: cleanWorkbook.xlsx.writeBuffer throws, outside any try
SerializeCleanFails ==
  /\ pc = "rebuilt"
  /\ attempts' = attempts + 1
  /\ pc' = "failed"
  /\ UNCHANGED codecVars
  /\ UNCHANGED <<requestVars, cleanWorkbook, callVars, probeVars>>
  /\ UNCHANGED <<files, config, fileIdx, sheetIdx, rowNum, totalRowNum, signatureRowNum,
                 lastRow, targetRowNum, isFirstSheet, signatureRowsToAdd, sigIdx,
                 worksheet>>

(***************************************************************************)
(* POST /api/merge-excel.                                                  *)
(***************************************************************************)
\* the most sheets and rows together in the files of a request
MaxRequestSize == 4

\* the File entries of the form: none, or the workbooks of 1..MaxFiles files
RequestFiles ==
  {<<>>} \cup
  UNION {UNION {Cuts(sl, MaxFiles) : sl \in SheetLists(n, MaxRequestSize)} :
           n \in 1..(MaxFiles * MaxSheets)}

\* the names of k sheets: at most one of them is called Consolidated
NameLists(k) ==
  {[s \in 1..k |-> IF s = c THEN Consolidated ELSE SheetName(s)] : c \in 0..k}

RequestNames(fs) ==
  IF fs = <<>> THEN {<<>>}
  ELSE {nm \in [DOMAIN fs -> UNION {NameLists(k) : k \in 1..MaxRequestSize}] :
          \A f \in DOMAIN fs : Len(nm[f]) = Len(fs[f])}

\* route.ts lines 9-15
DefaultConfig ==
  [includeTotal |-> FALSE, startRow |-> 1, startColumn |-> <<1>>, endColumn |-> <<26>>,
   includeSignature |-> FALSE]

\* a request arrives: its files, and a config field that is absent, holds
\* the JSON of a config, or holds text that is no JSON
InitRoute ==
  /\ files \in RequestFiles
  /\ sheetNames \in RequestNames(files)
  /\ corrupt \in SUBSET (DOMAIN files)
  /\ configData \in {"absent", "valid", "invalid"}
  /\ config \in IF configData = "valid" THEN Configs ELSE {DefaultConfig}
  /\ response = NoResponse
  /\ pc = "idle"
  /\ fileIdx = 0
  /\ sheetIdx = 0
  /\ rowNum = 0
  /\ totalRowNum = None
  /\ signatureRowNum = None
  /\ lastRow = 0
  /\ targetRowNum = 0
  /\ isFirstSheet = TRUE
  /\ signatureRowsToAdd = <<>>
  /\ sigIdx = 0
  /\ worksheet = {}
  /\ attempts = 0
  /\ cleanWorkbook = <<>>
  /\ suspended = <<>>
  /\ running = 1
  /\ ProbeIdle
  /\ CodecIdle

\* route.ts lines 5-38: the form is read, the config parsed (JSON.parse
\* throws into the catch of line 54), the files counted, mergeExcelFiles called
PostRequest ==
  /\ pc = "idle"
  /\ configData # "none"
  /\ response = NoResponse
  /\ IF configData = "invalid"
     THEN response' = [status |-> 500, body |-> "error"] /\ pc' = pc
     ELSE IF files = <<>>
     THEN response' = [status |-> 400, body |-> "error"] /\ pc' = pc
     ELSE response' = response /\ pc' = "begin"
  /\ UNCHANGED codecVars
  /\ UNCHANGED <<sheetNames, corrupt, configData, fallbackVars, callVars, probeVars>>
  /\ UNCHANGED <<files, config, fileIdx, sheetIdx, rowNum, totalRowNum, signatureRowNum,
                 lastRow, targetRowNum, isFirstSheet, signatureRowsToAdd, sigIdx,
                 worksheet>>

\* route.ts lines 38-53: the buffer is sent as the body
PostResponse ==
  /\ pc = "done"
  /\ configData # "none"
  /\ response = NoResponse
  /\ response' = [status |-> 200, body |-> "workbook"]
  /\ UNCHANGED codecVars
  /\ UNCHANGED <<sheetNames, corrupt, configData, fallbackVars, callVars, probeVars>>
  /\ UNCHANGED mergeVars

\* route.ts lines 54-59: mergeExcelFiles threw
PostFailure ==
  /\ pc = "failed"
  /\ configData # "none"
  /\ response = NoResponse
  /\ response' = [status |-> 500, body |-> "error"]
  /\ UNCHANGED codecVars
  /\ UNCHANGED <<sheetNames, corrupt, configData, fallbackVars, callVars, probeVars>>
  /\ UNCHANGED mergeVars

NextRoute ==
  \/ PostRequest
  \/ Next
  \/ BeginFails
  \/ LoadFileFails
  \/ SerializeFails
  \/ Rebuild
  \/ SerializeClean
  \/ SerializeCleanFails
  \/ PostResponse
  \/ PostFailure

SpecRoute == InitRoute /\ [][NextRoute]_vars

(***************************************************************************)
(* Two calls of mergeExcelFiles in one process: one runs, the other waits  *)
(* at an await; the event loop resumes the other when the one that runs    *)
(* comes to an await or returns.                                           *)
(***************************************************************************)
\* the most rows of the sheet of each of the two calls
MaxCallRows == 2

\* the files of each call: one workbook of one sheet
CallFiles == {<< <<sheet>> >> : sheet \in SheetsUpTo(MaxCallRows)}

\* the configs of each call: the window A..F, signatures asked for
CallConfigs == {c \in Configs : c.startColumn = <<1>> /\ c.includeSignature}

\* lines 295-320, 410: the parameters and locals of the call that runs
Frame ==
  [files |-> files, config |-> config, pc |-> pc, fileIdx |-> fileIdx,
   sheetIdx |-> sheetIdx, rowNum |-> rowNum, totalRowNum |-> totalRowNum,
   signatureRowNum |-> signatureRowNum, lastRow |-> lastRow,
   targetRowNum |-> targetRowNum, isFirstSheet |-> isFirstSheet,
   signatureRowsToAdd |-> signatureRowsToAdd, sigIdx |-> sigIdx,
   worksheet |-> worksheet, sheetNames |-> sheetNames, attempts |-> attempts]

\* the frame of a call that has not run yet
NewFrame(fs, cf) ==
  [files |-> fs, config |-> cf, pc |-> "begin", fileIdx |-> 0, sheetIdx |-> 0,
   rowNum |-> 0, totalRowNum |-> None, signatureRowNum |-> None, lastRow |-> 0,
   targetRowNum |-> 0, isFirstSheet |-> TRUE, signatureRowsToAdd |-> <<>>,
   sigIdx |-> 0, worksheet |-> {}, sheetNames |-> PlainNames(fs), attempts |-> 0]

InitTwoCalls ==
  /\ files \in CallFiles
  /\ config \in CallConfigs
  /\ pc = "begin"
  /\ fileIdx = 0
  /\ sheetIdx = 0
  /\ rowNum = 0
  /\ totalRowNum = None
  /\ signatureRowNum = None
  /\ lastRow = 0
  /\ targetRowNum = 0
  /\ isFirstSheet = TRUE
  /\ signatureRowsToAdd = <<>>
  /\ sigIdx = 0
  /\ worksheet = {}
  /\ sheetNames = PlainNames(files)
  /\ attempts = 0
  /\ suspended \in {NewFrame(fs, cf) : fs \in CallFiles, cf \in CallConfigs}
  /\ running = 1
  /\ corrupt = {}
  /\ configData = "none"
  /\ response = NoResponse
  /\ cleanWorkbook = <<>>
  /\ ProbeIdle
  /\ CodecIdle

\* the call that runs waits for a promise (lines 300-302, 323-325, 411) or
\* has returned
AtAwait ==
  \/ pc = "begin"
  \/ pc = "file" /\ fileIdx <= Len(files)
  \/ pc = "signature" /\ sigIdx > Len(signatureRowsToAdd)
  \/ pc = "done"

\* the event loop resumes the other call, were targetRowNum a variable of
\* the module and not of the call
ResumeOtherSharedCursor ==
  /\ suspended # <<>>
  /\ AtAwait
  /\ suspended.pc # "done"
  /\ files' = suspended.files
  /\ config' = suspended.config
  /\ pc' = suspended.pc
  /\ fileIdx' = suspended.fileIdx
  /\ sheetIdx' = suspended.sheetIdx
  /\ rowNum' = suspended.rowNum
  /\ totalRowNum' = suspended.totalRowNum
  /\ signatureRowNum' = suspended.signatureRowNum
  /\ lastRow' = suspended.lastRow
  /\ targetRowNum' = targetRowNum
  /\ isFirstSheet' = suspended.isFirstSheet
  /\ signatureRowsToAdd' = suspended.signatureRowsToAdd
  /\ sigIdx' = suspended.sigIdx
  /\ worksheet' = suspended.worksheet
  /\ sheetNames' = suspended.sheetNames
  /\ attempts' = suspended.attempts
  /\ suspended' = Frame
  /\ running' = 3 - running
  /\ UNCHANGED codecVars
  /\ UNCHANGED <<corrupt, configData, response, cleanWorkbook, probeVars>>

\* the event loop resumes the other call: each call finds its parameters and
\* locals (lines 295-320) as it left them
ResumeOther ==
  /\ suspended # <<>>
  /\ AtAwait
  /\ suspended.pc # "done"
  /\ files' = suspended.files
  /\ config' = suspended.config
  /\ pc' = suspended.pc
  /\ fileIdx' = suspended.fileIdx
  /\ sheetIdx' = suspended.sheetIdx
  /\ rowNum' = suspended.rowNum
  /\ totalRowNum' = suspended.totalRowNum
  /\ signatureRowNum' = suspended.signatureRowNum
  /\ lastRow' = suspended.lastRow
  /\ targetRowNum' = suspended.targetRowNum
  /\ isFirstSheet' = suspended.isFirstSheet
  /\ signatureRowsToAdd' = suspended.signatureRowsToAdd
  /\ sigIdx' = suspended.sigIdx
  /\ worksheet' = suspended.worksheet
  /\ sheetNames' = suspended.sheetNames
  /\ attempts' = suspended.attempts
  /\ suspended' = Frame
  /\ running' = 3 - running
  /\ UNCHANGED codecVars
  /\ UNCHANGED <<corrupt, configData, response, cleanWorkbook, probeVars>>

NextTwoCalls ==
  \/ Next
  \/ ResumeOther

SpecTwoCalls == InitTwoCalls /\ [][NextTwoCalls]_vars

(***************************************************************************)
(* The column codec at work: a number is converted to letters and back, a  *)
(* name of one or two letters to a number and back.                        *)
(***************************************************************************)
\* the largest column number converted: ZZ
MaxColumnNumber == 702
\* the longest column name converted
MaxLetters == 2

Letters == 1..26
ColumnNames == UNION {[1..k -> Letters] : k \in 1..MaxLetters}

MergeIdle ==
  /\ files = <<>>
  /\ config = [includeTotal |-> TRUE, startRow |-> 2, startColumn |-> <<1>>,
               endColumn |-> <<26>>, includeSignature |-> TRUE]
  /\ pc = "idle"
  /\ fileIdx = 0
  /\ sheetIdx = 0
  /\ rowNum = 0
  /\ totalRowNum = None
  /\ signatureRowNum = None
  /\ lastRow = 0
  /\ targetRowNum = 0
  /\ isFirstSheet = TRUE
  /\ signatureRowsToAdd = <<>>
  /\ sigIdx = 0
  /\ worksheet = {}

InitCodec ==
  /\ MergeIdle
  /\ DirectCall
  /\ \/ codecPc = "number" /\ codecIn \in 1..MaxColumnNumber
     \/ codecPc = "name" /\ codecIn \in ColumnNames
  /\ codecOut = 0
  /\ codecBack = 0

\* columnNumberToLetter(n)
NumberToLetter ==
  /\ codecPc = "number"
  /\ codecOut' = columnNumberToLetter(codecIn)
  /\ codecPc' = "letters"
  /\ UNCHANGED <<codecIn, codecBack, mergeVars, envVars>>

\* columnLetterToNumber(s)
LetterToNumber ==
  /\ codecPc = "name"
  /\ codecOut' = columnLetterToNumber(codecIn)
  /\ codecPc' = "numbered"
  /\ UNCHANGED <<codecIn, codecBack, mergeVars, envVars>>

\* columnLetterToNumber(columnNumberToLetter(n))
LetterBackToNumber ==
  /\ codecPc = "letters"
  /\ codecBack' = columnLetterToNumber(codecOut)
  /\ codecPc' = "number back"
  /\ UNCHANGED <<codecIn, codecOut, mergeVars, envVars>>

\* columnNumberToLetter(columnLetterToNumber(s))
NumberBackToLetter ==
  /\ codecPc = "numbered"
  /\ codecBack' = columnNumberToLetter(codecOut)
  /\ codecPc' = "name back"
  /\ UNCHANGED <<codecIn, codecOut, mergeVars, envVars>>

NextCodec ==
  \/ NumberToLetter
  \/ LetterToNumber
  \/ LetterBackToNumber
  \/ NumberBackToLetter

SpecCodec == InitCodec /\ [][NextCodec]_vars

(***************************************************************************)
(* The cell value extractor at work: a cell is extracted, the result is    *)
(* assigned to a target cell as copyRowWithFormatting does, and the target *)
(* cell is extracted again.                                                *)
(***************************************************************************)
\* the texts, numbers and day numbers of the cells extracted
ProbeTexts == {<<"x">>, <<"1","2">>, <<" ","T","o","t","a","l">>, <<>>}
MaxProbeNumber == 2
ProbeNumbers == 0..MaxProbeNumber
ProbeDates == 1..MaxProbeNumber

\* the plain values of the four kinds: string, number, boolean, date
Scalars ==
  {Str(s) : s \in ProbeTexts} \cup {Num(n) : n \in ProbeNumbers} \cup
  {Bool(b) : b \in BOOLEAN} \cup {Date(d) : d \in ProbeDates}

\* what a formula may carry as its cached result: nothing, a plain value, or
\* an error value (CellFormulaValue.result)
FormulaResults == {Null} \cup Scalars \cup {ErrorValue("#DIV/0!")}

CellValues ==
  {Null} \cup Scalars \cup
  {ErrorValue(e) : e \in {"#DIV/0!", "#N/A"}} \cup
  {Hyperlink(s, "u") : s \in ProbeTexts} \cup
  {RichText(runs) : runs \in {<< <<"b">>, <<"c">> >>, << <<"x">> >>, <<>>}} \cup
  {Formula(f, r) : f \in {"f", "shared"}, r \in FormulaResults}

InitExtract ==
  /\ MergeIdle
  /\ CodecIdle
  /\ sheetNames = <<>>
  /\ corrupt = {}
  /\ configData = "none"
  /\ response = NoResponse
  /\ attempts = 0
  /\ cleanWorkbook = <<>>
  /\ suspended = <<>>
  /\ running = 1
  /\ probePc = "cell"
  /\ probeArg \in CellValues
  /\ probeResult = 0
  /\ probeCell = 0

\* extractSafeCellValue(sourceCell)
ExtractCell ==
  /\ probePc = "cell"
  /\ probeResult' = extractSafeCellValue(probeArg)
  /\ probePc' = "extracted"
  /\ UNCHANGED <<probeArg, probeCell>>
  /\ UNCHANGED <<mergeVars, codecVars, requestVars, fallbackVars, callVars>>

\* lines 198-206: copyRowWithFormatting copies the cell into an empty row
StoreCell ==
  /\ probePc = "extracted"
  /\ probeCell' = copyRowWithFormatting([EmptyRow EXCEPT ![1] = probeArg], EmptyRow, 1, 1)[1]
  /\ probePc' = "stored"
  /\ UNCHANGED <<probeArg, probeResult>>
  /\ UNCHANGED <<mergeVars, codecVars, requestVars, fallbackVars, callVars>>

\* extractSafeCellValue(targetCell)
ExtractAgain ==
  /\ probePc = "stored"
  /\ probeResult' = extractSafeCellValue(probeCell)
  /\ probePc' = "extracted again"
  /\ UNCHANGED <<probeArg, probeCell>>
  /\ UNCHANGED <<mergeVars, codecVars, requestVars, fallbackVars, callVars>>

NextExtract ==
  \/ ExtractCell
  \/ StoreCell
  \/ ExtractAgain

SpecExtract == InitExtract /\ [][NextExtract]_vars

(***************************************************************************)
(* findTotalRow at work on sheets of its own.                              *)
(***************************************************************************)
\* the most rows of a sheet searched
MaxProbeRows == 3

\* a row with one value, in column c
OneCellRow(c, v) == [EmptyRow EXCEPT ![c] = v]

\* the rows of the sheets searched: labels that are TOTAL but for case and
\* spaces, labels that contain the word, a rich text and a formula result
\* reading TOTAL, a row without values, a data row
ProbeRows ==
  {OneCellRow(3, Str(<<" ","t","o","t","a","l"," ">>)),
   OneCellRow(6, Str(<<"t","O","t","A","l">>)),
   OneCellRow(1, Str(<<"T","o","t","a","l"," ","A","m","o","u","n","t">>)),
   OneCellRow(2, Str(<<"T","O","T","A","L","S">>)),
   OneCellRow(2, RichText(<< <<"T","O">>, <<"T","A","L">> >>)),
   OneCellRow(4, Formula("f", Str(<<"T","O","T","A","L">>))),
   EmptyRow,
   DataRow}

ProbeSheets == UNION {[1..k -> ProbeRows] : k \in 1..MaxProbeRows}

InitFindTotal ==
  /\ MergeIdle
  /\ CodecIdle
  /\ sheetNames = <<>>
  /\ corrupt = {}
  /\ configData = "none"
  /\ response = NoResponse
  /\ attempts = 0
  /\ cleanWorkbook = <<>>
  /\ suspended = <<>>
  /\ running = 1
  /\ probePc = "sheet"
  /\ probeArg \in ProbeSheets
  /\ probeResult = 0
  /\ probeCell = 0

\* findTotalRow(worksheet)
FindTotal ==
  /\ probePc = "sheet"
  /\ probeResult' = findTotalRow(probeArg)
  /\ probePc' = "searched"
  /\ UNCHANGED <<probeArg, probeCell>>
  /\ UNCHANGED <<mergeVars, codecVars, requestVars, fallbackVars, callVars>>

NextFindTotal == FindTotal

SpecFindTotal == InitFindTotal /\ [][NextFindTotal]_vars

(***************************************************************************)
(* isSubtotalRow at work on rows and windows of its own.                   *)
(***************************************************************************)
\* the columns of the rows classified
MaxProbeCols == 10
\* the ways each kind of cell is written, the ways a row is laid out
ProbeVariants == 1..3
ProbeShifts == 0..2

\* a cell that holds nothing, a figure, or something else, written in one of
\* three ways: no value, '' and blanks; a number, a text with a thousands
\* separator and a padded text of digits; a text, a formula and a boolean
ProbeCell(kind, variant) ==
  CASE kind = "empty" -> <<Null, Str(<<>>), Str(<<" "," ">>)>>[variant]
    [] kind = "numeric" -> <<Num(5), Str(<<"4","2","4",",","5","9","5">>),
                             Str(<<" ","1","2">>)>>[variant]
    [] kind = "text" -> <<Str(<<"a","1">>), Formula("f", Num(3)), Bool(TRUE)>>[variant]

\* what the cells of a row hold, column by column: first the numeric cells,
\* then the others, then the empty ones, moved right by shift columns
ProbeKinds(numeric, text, shift) ==
  [c \in 1..MaxProbeCols |->
     LET at == ((c - 1 + MaxProbeCols - shift) % MaxProbeCols) + 1
     IN  IF at <= numeric THEN "numeric"
         ELSE IF at <= numeric + text THEN "text"
         ELSE "empty"]

ProbeWindows ==
  {w \in (1..MaxProbeCols) \X (1..MaxProbeCols) : w[1] <= w[2]}

\* a row, what its cells hold, and a window
SubtotalProbes ==
  {[kinds |-> ProbeKinds(n, t, sh),
    row |-> [c \in 1..MaxProbeCols |-> ProbeCell(ProbeKinds(n, t, sh)[c], v)],
    startCol |-> w[1],
    endCol |-> w[2]] :
     n \in 0..MaxProbeCols, t \in 0..2, sh \in ProbeShifts, v \in ProbeVariants,
     w \in ProbeWindows}

InitSubtotal ==
  /\ MergeIdle
  /\ CodecIdle
  /\ sheetNames = <<>>
  /\ corrupt = {}
  /\ configData = "none"
  /\ response = NoResponse
  /\ attempts = 0
  /\ cleanWorkbook = <<>>
  /\ suspended = <<>>
  /\ running = 1
  /\ probePc = "row"
  /\ probeArg \in SubtotalProbes
  /\ probeResult = 0
  /\ probeCell = 0

\* isSubtotalRow(row, startCol, endCol)
ClassifyRow ==
  /\ probePc = "row"
  /\ probeResult' = isSubtotalRow(probeArg.row, probeArg.startCol, probeArg.endCol)
  /\ probePc' = "classified"
  /\ UNCHANGED <<probeArg, probeCell>>
  /\ UNCHANGED <<mergeVars, codecVars, requestVars, fallbackVars, callVars>>

NextSubtotal == ClassifyRow

SpecSubtotal == InitSubtotal /\ [][NextSubtotal]_vars

(***************************************************************************)
(* findSignatureRow at work on sheets of its own.                          *)
(***************************************************************************)
\* the rows of the sheets searched: a keyword as the header comment spells
\* it, a keyword in capitals between blanks, a keyword inside a sentence,
\* words that are no keyword, a rich text reading a keyword, a figure, a row
\* without values, a data row
SignatureProbeRows ==
  {OneCellRow(2, Str(<<"N","g","ư","ờ","i"," ","n","h","ậ","n">>)),
   OneCellRow(5, Str(<<" ","C","H","Ữ"," ","K","Ý"," ">>)),
   OneCellRow(1, Str(<<"T","h","e"," ","S","i","g","n","a","t","u","r","e",":">>)),
   OneCellRow(3, Str(<<"S","i","g","n"," ","h","e","r","e">>)),
   OneCellRow(4, RichText(<< <<"s","i","g","n","a","t","u","r","e">> >>)),
   OneCellRow(6, Num(7)),
   EmptyRow,
   DataRow}

SignatureProbeSheets == UNION {[1..k -> SignatureProbeRows] : k \in 1..MaxProbeRows}

InitFindSignature ==
  /\ MergeIdle
  /\ CodecIdle
  /\ sheetNames = <<>>
  /\ corrupt = {}
  /\ configData = "none"
  /\ response = NoResponse
  /\ attempts = 0
  /\ cleanWorkbook = <<>>
  /\ suspended = <<>>
  /\ running = 1
  /\ probePc = "signature sheet"
  /\ probeArg \in SignatureProbeSheets
  /\ probeResult = 0
  /\ probeCell = 0

\* findSignatureRow(worksheet)
FindSignature ==
  /\ probePc = "signature sheet"
  /\ probeResult' = findSignatureRow(probeArg)
  /\ probePc' = "signature searched"
  /\ UNCHANGED <<probeArg, probeCell>>
  /\ UNCHANGED <<mergeVars, codecVars, requestVars, fallbackVars, callVars>>

NextFindSignature == FindSignature

SpecFindSignature == InitFindSignature /\ [][NextFindSignature]_vars

(***************************************************************************)
(* The configuration form and the page that posts its config.              *)
(***************************************************************************)
\* the largest number typed in the start row input
MaxFormRow == 3

\* what is typed in the start row input, as parseInt reads it ('' and '0'
\* are 0)
FormRowInputs == -1..MaxFormRow

\* what is typed in a column input: at most two of the characters A, B, a
\* (letter codes as in the column codec: charCode - 64)
FormChars == {1, 2, 33}
FormColumnInputs == UNION {[1..k -> FormChars] : k \in 0..MaxLetters}

\* String.prototype.toUpperCase on a column text
ColumnToUpperCase(text) == [i \in 1..Len(text) |-> IF text[i] > 32 THEN text[i] - 32 ELSE text[i]]

\* page.tsx lines 10-20: the page opens with the default config and files
\* chosen
InitForm ==
  /\ MergeIdle
  /\ CodecIdle
  /\ sheetNames = <<>>
  /\ corrupt = {}
  /\ configData = "form"
  /\ response = NoResponse
  /\ attempts = 0
  /\ cleanWorkbook = <<>>
  /\ suspended = <<>>
  /\ running = 1
  /\ ProbeIdle

\* merge-config-form.tsx lines 42-48: the Include TOTAL Row checkbox
SetIncludeTotal ==
  /\ configData = "form"
  /\ \E checked \in BOOLEAN : config' = [config EXCEPT !.includeTotal = checked]
  /\ UNCHANGED <<files, pc, fileIdx, sheetIdx, rowNum, totalRowNum, signatureRowNum,
                 lastRow, targetRowNum, isFirstSheet, signatureRowsToAdd, sigIdx,
                 worksheet>>
  /\ UNCHANGED <<codecVars, envVars>>

\* merge-config-form.tsx lines 66-81: the Data Start Row input
SetStartRow ==
  /\ configData = "form"
  /\ \E numValue \in FormRowInputs :
       config' = IF numValue > 0 THEN [config EXCEPT !.startRow = numValue] ELSE config
  /\ UNCHANGED <<files, pc, fileIdx, sheetIdx, rowNum, totalRowNum, signatureRowNum,
                 lastRow, targetRowNum, isFirstSheet, signatureRowsToAdd, sigIdx,
                 worksheet>>
  /\ UNCHANGED <<codecVars, envVars>>

\* merge-config-form.tsx lines 94-103: the Start Column input
SetStartColumn ==
  /\ configData = "form"
  /\ \E value \in FormColumnInputs :
       config' = [config EXCEPT !.startColumn = ColumnToUpperCase(value)]
  /\ UNCHANGED <<files, pc, fileIdx, sheetIdx, rowNum, totalRowNum, signatureRowNum,
                 lastRow, targetRowNum, isFirstSheet, signatureRowsToAdd, sigIdx,
                 worksheet>>
  /\ UNCHANGED <<codecVars, envVars>>

\* merge-config-form.tsx lines 111-120: the End Column input
SetEndColumn ==
  /\ configData = "form"
  /\ \E value \in FormColumnInputs :
       config' = [config EXCEPT !.endColumn = ColumnToUpperCase(value)]
  /\ UNCHANGED <<files, pc, fileIdx, sheetIdx, rowNum, totalRowNum, signatureRowNum,
                 lastRow, targetRowNum, isFirstSheet, signatureRowsToAdd, sigIdx,
                 worksheet>>
  /\ UNCHANGED <<codecVars, envVars>>

\* the Include Signature checkbox
SetIncludeSignature ==
  /\ configData = "form"
  /\ \E checked \in BOOLEAN : config' = [config EXCEPT !.includeSignature = checked]
  /\ UNCHANGED <<files, pc, fileIdx, sheetIdx, rowNum, totalRowNum, signatureRowNum,
                 lastRow, targetRowNum, isFirstSheet, signatureRowsToAdd, sigIdx,
                 worksheet>>
  /\ UNCHANGED <<codecVars, envVars>>

\* page.tsx lines 24-49 and route.ts lines 26-38: the config is posted as
\* JSON with the files chosen, parsed, and handed to mergeExcelFiles as it is
SubmitForm ==
  /\ configData = "form"
  /\ \E fs \in CallFiles :
       /\ files' = fs
       /\ sheetNames' = PlainNames(fs)
  /\ configData' = "valid"
  /\ pc' = "begin"
  /\ UNCHANGED <<config, fileIdx, sheetIdx, rowNum, totalRowNum, signatureRowNum,
                 lastRow, targetRowNum, isFirstSheet, signatureRowsToAdd, sigIdx,
                 worksheet>>
  /\ UNCHANGED <<corrupt, response, fallbackVars, callVars, probeVars, codecVars>>

NextForm ==
  \/ SetIncludeTotal
  \/ SetStartRow
  \/ SetStartColumn
  \/ SetEndColumn
  \/ SetIncludeSignature
  \/ SubmitForm

SpecForm == InitForm /\ [][NextForm]_vars

(***************************************************************************)
(* The detection of the special rows of a sheet, as the sheet callback     *)
(* runs it under a config with a column window.                            *)
(***************************************************************************)
\* the rows of the sheets searched: a TOTAL label and a keyword in the first,
\* in a middle and in the last column, a row without values, a data row
DetectRows ==
  {OneCellRow(1, Str(<<" ","T","o","t","a","l">>)),
   OneCellRow(3, Str(<<"T","O","T","A","L">>)),
   OneCellRow(6, Str(<<"C","h","ữ"," ","k","ý">>)),
   OneCellRow(4, Str(<<"S","i","g","n","a","t","u","r","e",":">>)),
   EmptyRow,
   DataRow}

DetectSheets == UNION {[1..k -> DetectRows] : k \in 1..MaxCallRows}

\* the windows of the configs: all columns, B..E, C..D
DetectWindows == Windows \cup {<< <<3>>, <<4>> >>}

InitDetect ==
  /\ MergeIdle
  /\ CodecIdle
  /\ sheetNames = <<>>
  /\ corrupt = {}
  /\ configData = "none"
  /\ response = NoResponse
  /\ attempts = 0
  /\ cleanWorkbook = <<>>
  /\ suspended = <<>>
  /\ running = 1
  /\ probePc = "detect"
  /\ \E sheet \in DetectSheets : \E w \in DetectWindows :
       probeArg = [sheet |-> sheet, startColumn |-> w[1], endColumn |-> w[2]]
  /\ probeResult = 0
  /\ probeCell = 0

\* the cells of a row that stand in the window
InWindow(row, startCol, endCol) ==
  [c \in Cols |-> IF startCol <= c /\ c <= endCol THEN row[c] ELSE Null]

\* the detection reading the cells of the window alone
DetectSpecialRowsInWindow ==
  /\ probePc = "detect"
  /\ LET startCol == columnLetterToNumber(probeArg.startColumn)
         endCol == columnLetterToNumber(probeArg.endColumn)
         sheet == [r \in DOMAIN probeArg.sheet |->
                     InWindow(probeArg.sheet[r], startCol, endCol)]
     IN  probeResult' = [totalRowNum |-> findTotalRow(sheet),
                         signatureRowNum |-> findSignatureRow(sheet)]
  /\ probePc' = "detected"
  /\ UNCHANGED <<probeArg, probeCell>>
  /\ UNCHANGED <<mergeVars, codecVars, requestVars, fallbackVars, callVars>>

\* lines 317-319, 334-336: the window is read from the config, the special
\* rows are searched in the sheet
DetectSpecialRows ==
  /\ probePc = "detect"
  /\ probeResult' = [totalRowNum |-> findTotalRow(probeArg.sheet),
                     signatureRowNum |-> findSignatureRow(probeArg.sheet)]
  /\ probePc' = "detected"
  /\ UNCHANGED <<probeArg, probeCell>>
  /\ UNCHANGED <<mergeVars, codecVars, requestVars, fallbackVars, callVars>>

NextDetect == DetectSpecialRows

SpecDetect == InitDetect /\ [][NextDetect]_vars

(***************************************************************************)
(* copyMergedCells.  A merge range is a rectangle of cells; the model of a *)
(* sheet lists its ranges by their references ("A1:B2").                   *)
(***************************************************************************)
\* the most merge ranges of a source sheet
MaxMerges == 2

Range(top, left, bottom, right) ==
  [top |-> top, left |-> left, bottom |-> bottom, right |-> right]

\* the text of a column name given as letter codes
LettersToText(letters) == [i \in 1..Len(letters) |-> UpperChars[letters[i]]]

\* the reference of a range as sheet.model.merges holds it: "C1:D2"
RangeRef(range) ==
  LettersToText(columnNumberToLetter(range.left)) \o NatToString(range.top) \o <<":">> \o
  LettersToText(columnNumberToLetter(range.right)) \o NatToString(range.bottom)

\* the entries of model.merges: the references of ranges of a sheet that do
\* not overlap, and references that are no range reference
SourceRanges ==
  {Range(1, 1, 1, 2), Range(1, 3, 2, 4), Range(2, 2, 3, 2), Range(3, 5, 3, 6)}
OtherRefs == {<<"A","1">>, <<"$","A","$","1",":","$","B","$","1">>}
MergeRefs == {RangeRef(range) : range \in SourceRanges} \cup OtherRefs

\* the lists of at most n entries, none twice
MergeLists(n) ==
  UNION {{l \in [1..k -> MergeRefs] : \A i \in 1..k : \A j \in 1..k : l[i] = l[j] => i = j} :
           k \in 0..n}

\* [A-Z] and \d
IsLetter(ch) == IndexIn(ch, UpperChars) \in 1..26
IsDigit(ch) == IndexIn(ch, Digits) # 0

\* the end of the longest run of letters (of digits) of s that starts at i;
\* i - 1 when there is none
LetterRunEnd(s, i) ==
  IF i > Len(s) THEN i - 1
  ELSE CHOOSE j \in (i - 1)..Len(s) :
         /\ \A k \in i..j : IsLetter(s[k])
         /\ j = Len(s) \/ ~IsLetter(s[j + 1])
DigitRunEnd(s, i) ==
  IF i > Len(s) THEN i - 1
  ELSE CHOOSE j \in (i - 1)..Len(s) :
         /\ \A k \in i..j : IsDigit(s[k])
         /\ j = Len(s) \/ ~IsDigit(s[j + 1])

\* /([A-Z]+)(\d+):([A-Z]+)(\d+)/ tried at position i of s: the four groups
\* are s[i..a], s[a+1..b], s[b+2..c], s[c+1..d]
GroupEnds(s, i) ==
  LET a == LetterRunEnd(s, i)
      b == DigitRunEnd(s, a + 1)
      c == LetterRunEnd(s, b + 2)
      d == DigitRunEnd(s, c + 1)
  IN  <<a, b, c, d>>
MatchesAt(s, i) ==
  LET e == GroupEnds(s, i)
  IN  /\ e[1] >= i
      /\ e[2] >= e[1] + 1
      /\ e[2] + 1 <= Len(s)
      /\ s[e[2] + 1] = ":"
      /\ e[3] >= e[2] + 2
      /\ e[4] >= e[3] + 1

\* parseInt of a run of digits
RECURSIVE ParseInt(_)
ParseInt(s) ==
  IF s = <<>> THEN 0
  ELSE 10 * ParseInt(SubSeq(s, 1, Len(s) - 1)) + (IndexIn(s[Len(s)], Digits) - 1)

\* the letter codes of a run of letters
LetterCodes(s) == [i \in 1..Len(s) |-> IndexIn(s[i], UpperChars)]

\* lines 262-271: merge.match(...), the groups read as numbers
MergeMatches(merge) == \E i \in 1..Len(merge) : MatchesAt(merge, i)
ParseMerge(merge) ==
  LET i == CHOOSE i \in 1..Len(merge) :
             MatchesAt(merge, i) /\ \A j \in 1..(i - 1) : ~MatchesAt(merge, j)
      e == GroupEnds(merge, i)
  IN  Range(ParseInt(SubSeq(merge, e[1] + 1, e[2])),
            columnLetterToNumber(LetterCodes(SubSeq(merge, i, e[1]))),
            ParseInt(SubSeq(merge, e[3] + 1, e[4])),
            columnLetterToNumber(LetterCodes(SubSeq(merge, e[2] + 2, e[3]))))

\* Worksheet.mergeCells throws when the range meets a merged range
Intersects(a, b) ==
  /\ a.left <= b.right /\ b.left <= a.right
  /\ a.top <= b.bottom /\ b.top <= a.bottom
MergeCellsThrows(sheetMerges, range) == \E m \in sheetMerges : Intersects(m, range)

\* lines 274-275
WithinRange(range, sourceRowStart, sourceRowEnd, startCol, endCol) ==
  /\ range.top >= sourceRowStart /\ range.bottom <= sourceRowEnd
  /\ range.left >= startCol /\ range.right <= endCol

\* the row of the target counted from the first row of the sheets
NewRowFromTop(sourceRow, sourceRowStart, targetRowOffset) == sourceRow + targetRowOffset

\* lines 277-278
NewRow(sourceRow, sourceRowStart, targetRowOffset) ==
  sourceRow - sourceRowStart + targetRowOffset

\* the calls of copyMergedCells: the merges of the source sheet, the rows and
\* the row offset, the window, the merges the target sheet holds
MergeCalls ==
  {[merges |-> l, sourceRowStart |-> rows[1], sourceRowEnd |-> rows[2],
    targetRowOffset |-> off, startCol |-> columnLetterToNumber(w[1]),
    endCol |-> columnLetterToNumber(w[2]), targetMerges |-> tm] :
     l \in MergeLists(MaxMerges),
     rows \in {<<1, 1>>, <<1, 2>>, <<2, 3>>},
     off \in 1..2,
     w \in DetectWindows,
     tm \in {{}, {Range(1, 1, 1, 2)}, {Range(2, 3, 3, 3)}}}

InitCopyMerged ==
  /\ MergeIdle
  /\ CodecIdle
  /\ sheetNames = <<>>
  /\ corrupt = {}
  /\ configData = "none"
  /\ response = NoResponse
  /\ attempts = 0
  /\ cleanWorkbook = <<>>
  /\ suspended = <<>>
  /\ running = 1
  /\ probePc = "merges"
  /\ probeArg \in MergeCalls
  /\ probeResult = probeArg.targetMerges
  /\ probeCell = 1

\* lines 273-287: a range inside the rows and the window is merged in the
\* target at its new rows; a mergeCells that throws is caught and leaves the
\* target as it was
CopyRange(sheetMerges, range, call) ==
  LET target == Range(NewRow(range.top, call.sourceRowStart, call.targetRowOffset),
                      range.left,
                      NewRow(range.bottom, call.sourceRowStart, call.targetRowOffset),
                      range.right)
  IN  IF /\ WithinRange(range, call.sourceRowStart, call.sourceRowEnd,
                        call.startCol, call.endCol)
         /\ ~MergeCellsThrows(sheetMerges, target)
      THEN sheetMerges \cup {target}
      ELSE sheetMerges

\* lines 260-288: one turn of the loop over the merges
CopyMerge ==
  /\ probePc = "merges"
  /\ probeCell <= Len(probeArg.merges)
  /\ LET merge == probeArg.merges[probeCell]
     IN  IF ~MergeMatches(merge)
         THEN probeResult' = probeResult
         ELSE probeResult' = CopyRange(probeResult, ParseMerge(merge), probeArg)
  /\ probeCell' = probeCell + 1
  /\ UNCHANGED <<probePc, probeArg>>
  /\ UNCHANGED <<mergeVars, codecVars, requestVars, fallbackVars, callVars>>

\* line 290: the loop is over
CopyMergedEnd ==
  /\ probePc = "merges"
  /\ probeCell > Len(probeArg.merges)
  /\ probePc' = "merged"
  /\ UNCHANGED <<probeArg, probeResult, probeCell>>
  /\ UNCHANGED <<mergeVars, codecVars, requestVars, fallbackVars, callVars>>

NextCopyMerged == CopyMerge \/ CopyMergedEnd

SpecCopyMerged == InitCopyMerged /\ [][NextCopyMerged]_vars

(***************************************************************************)
(* Calls run to their end: a call of mergeExcelFiles, or a call of         *)
(* columnNumberToLetter with its while loop taken turn by turn.            *)
(* Node runs a handler until it returns or throws, and the promises it     *)
(* awaits (xlsx.load, writeBuffer) settle: a call that can take a step     *)
(* takes one.                                                              *)
(***************************************************************************)
\* the arguments of columnNumberToLetter: integers below 1, the numbers of
\* the names of one and two letters, the first names of three letters
LoopNumbers == (0 - 2)..(MaxColumnNumber + 2)

InitLetterLoop ==
  /\ MergeIdle
  /\ sheetNames = <<>>
  /\ corrupt = {}
  /\ configData = "none"
  /\ response = NoResponse
  /\ attempts = 0
  /\ cleanWorkbook = <<>>
  /\ suspended = <<>>
  /\ running = 1
  /\ ProbeIdle
  /\ codecPc = "loop"
  /\ codecIn \in LoopNumbers
  /\ codecBack = codecIn
  /\ codecOut = <<>>

\* lines 133-137: one turn of while (num > 0); codecBack is num, codecOut is
\* letter
LetterLoopTurn ==
  /\ codecPc = "loop"
  /\ codecBack > 0
  /\ codecOut' = <<((codecBack - 1) % 26) + 1>> \o codecOut
  /\ codecBack' = (codecBack - 1) \div 26
  /\ UNCHANGED <<codecPc, codecIn, mergeVars, envVars>>

\* lines 133, 138: num > 0 fails, letter is returned
LetterLoopReturn ==
  /\ codecPc = "loop"
  /\ codecBack <= 0
  /\ codecPc' = "returned"
  /\ UNCHANGED <<codecIn, codecOut, codecBack, mergeVars, envVars>>

\* the files of the calls: one or two workbooks, one or two sheets, sheets of
\* subtotal, total and signature rows
EndsRows == {SubtotalRow, TotalRow, SignatureRow}
EndsFiles ==
  {fs \in RequestFiles \ {<<>>} :
     \A f \in DOMAIN fs : \A s \in DOMAIN fs[f] :
       /\ Len(fs[f][s]) <= MaxCallRows
       /\ \A r \in DOMAIN fs[f][s] : fs[f][s][r] \in EndsRows}

\* a call of mergeExcelFiles on files some of which may not parse, under a
\* config with the window A..F
InitMergeCall ==
  /\ files \in EndsFiles
  /\ config \in CallConfigs
  /\ sheetNames = PlainNames(files)
  /\ corrupt \in SUBSET (DOMAIN files)
  /\ configData = "none"
  /\ response = NoResponse
  /\ attempts = 0
  /\ cleanWorkbook = <<>>
  /\ suspended = <<>>
  /\ running = 1
  /\ ProbeIdle
  /\ CodecIdle
  /\ pc = "begin"
  /\ fileIdx = 0
  /\ sheetIdx = 0
  /\ rowNum = 0
  /\ totalRowNum = None
  /\ signatureRowNum = None
  /\ lastRow = 0
  /\ targetRowNum = 0
  /\ isFirstSheet = TRUE
  /\ signatureRowsToAdd = <<>>
  /\ sigIdx = 0
  /\ worksheet = {}

InitEnds == InitMergeCall \/ InitLetterLoop

NextEnds ==
  \/ Next
  \/ BeginFails
  \/ LoadFileFails
  \/ SerializeFails
  \/ Rebuild
  \/ SerializeClean
  \/ SerializeCleanFails
  \/ LetterLoopTurn
  \/ LetterLoopReturn

SpecEnds == InitEnds /\ [][NextEnds]_vars /\ WF_vars(NextEnds)

(***************************************************************************)
(* isSubtotalRow under narrow windows: on rows of its own, and inside the  *)
(* data loop of a merge whose config has a window of two, three, four or   *)
(* six columns.                                                            *)
(***************************************************************************)
\* the windows of the configs: A..F, B..E, C..D and B..D
NarrowWindows == DetectWindows \cup {<< <<2>>, <<4>> >>}

NarrowConfigs ==
  {[includeTotal |-> it, startRow |-> sr, startColumn |-> w[1], endColumn |-> w[2],
    includeSignature |-> is] :
     it \in BOOLEAN, sr \in 1..MaxStartRow, w \in NarrowWindows, is \in BOOLEAN}

InitNarrowMerge ==
  /\ files \in CallFiles
  /\ config \in NarrowConfigs
  /\ pc = "begin"
  /\ fileIdx = 0
  /\ sheetIdx = 0
  /\ rowNum = 0
  /\ totalRowNum = None
  /\ signatureRowNum = None
  /\ lastRow = 0
  /\ targetRowNum = 0
  /\ isFirstSheet = TRUE
  /\ signatureRowsToAdd = <<>>
  /\ sigIdx = 0
  /\ worksheet = {}
  /\ CodecIdle
  /\ DirectCall
  /\ ProbeIdle

InitNarrow == InitSubtotal \/ InitNarrowMerge

NextNarrow == ClassifyRow \/ Next

SpecNarrow == InitNarrow /\ [][NextNarrow]_vars

(***************************************************************************)
(* What the claims speak of.                                               *)
(***************************************************************************)
\* the sheets of the call, in processing order
SheetIds ==
  {fs \in (1..Len(files)) \X (1..MaxSheets) : fs[2] <= Len(files[fs[1]])}
SheetOf(fs) == files[fs[1]][fs[2]]
\* findTotalRow and findSignatureRow of every sheet an input may hold,
\* tabulated (@@ yields the explicit function, computed once)
TotalRows == [sheet \in SheetsUpTo(MaxRows) |-> findTotalRow(sheet)] @@ <<>>
SignatureRows == [sheet \in SheetsUpTo(MaxRows) |-> findSignatureRow(sheet)] @@ <<>>
TotalRowOf(fs) == TotalRows[SheetOf(fs)]
SignatureRowOf(fs) == SignatureRows[SheetOf(fs)]
FirstSheet == <<1, 1>>

\* (file, sheet, row) order
SrcBefore(a, b) ==
  \/ a[1] < b[1]
  \/ a[1] = b[1] /\ a[2] < b[2]
  \/ a[1] = b[1] /\ a[2] = b[2] /\ a[3] < b[3]

\* header rows, then data and total rows, then the signature block
ViaRank(via) ==
  CASE via = "header" -> 1
    [] via \in {"data", "total"} -> 2
    [] via = "signature" -> 3

\* the output rows copied from a source row
Copies(src) == {w \in worksheet : w.src = src}

Done == pc = "done"

(***************************************************************************)
(* C1: the rows of the Consolidated sheet are, from the top: the header    *)
(* rows 1..startRow-1 of the first processed sheet, the copied data and    *)
(* total rows in (file, sheet, row) order, the signature block.  Output    *)
(* order is write order: no data or total row is written before a header   *)
(* row or after a signature row, and no two rows of one kind stand in the  *)
(* reverse of their source order.                                          *)
(***************************************************************************)
C1_OutputOrder ==
  /\ \A w1, w2 \in worksheet :
       w1.n < w2.n =>
         /\ w1.seq < w2.seq
         /\ ViaRank(w1.via) <= ViaRank(w2.via)
         /\ ViaRank(w1.via) = ViaRank(w2.via) => SrcBefore(w1.src, w2.src)
  /\ \A w \in worksheet :
       w.via = "header" => w.src = <<1, 1, w.n>> /\ w.n < startRowNum
  /\ Done => \A r \in 1..(startRowNum - 1) :
               \E w \in worksheet : w.via = "header" /\ w.n = r

\* a finished merge with a header row and data rows of two sheets
C1_Witness ==
  /\ Done
  /\ \E w \in worksheet : w.via = "header"
  /\ \E w1, w2 \in worksheet :
       /\ w1.via = "data"
       /\ w2.via = "data"
       /\ <<w1.src[1], w1.src[2]>> # <<w2.src[1], w2.src[2]>>

\* the rows of a sheet from its signature row to its last row
SectionRows(fs) ==
  LET s == SignatureRowOf(fs)
  IN  IF s = None THEN {} ELSE {<<fs[1], fs[2], r>> : r \in s..Len(SheetOf(fs))}

AllSheetsSigned == \A fs \in SheetIds : SignatureRowOf(fs) # None

\* the output holds the signature section of sheet fs and of no other sheet,
\* each of its rows once, below every other row
OneSignatureSection(fs) ==
  LET section == SectionRows(fs)
  IN  /\ \A src \in section : Cardinality(Copies(src)) = 1
      /\ \A gs \in SheetIds \ {fs} : \A src \in SectionRows(gs) : Copies(src) = {}
      /\ \A w1, w2 \in worksheet :
           w1.src \in section /\ w2.src \notin section => w1.n > w2.n

(***************************************************************************)
(* C2: with includeSignature = true and a signature section in every       *)
(* sheet of every file, the finished Consolidated sheet holds the rows of  *)
(* exactly one signature section, each written exactly once, and all of    *)
(* them below every header, data and total row.                            *)
(***************************************************************************)
C2_OneSignatureBlock ==
  (Done /\ config.includeSignature /\ AllSheetsSigned) =>
    \E fs \in SheetIds : OneSignatureSection(fs)

\* every sheet has its signature row in the scanned rows, and no sheet's
\* signature row is also its detected total row
SignatureRowsScanned ==
  /\ AllSheetsSigned
  /\ \A fs \in SheetIds :
       LET s == SignatureRowOf(fs)
       IN  s >= startRowNum /\ s # TotalRowOf(fs)

\* C2 as amended: with includeSignature = true and a signature section in
\* every sheet, where no signature row is above startRow and no signature
\* row is also the sheet's detected total row, the finished Consolidated
\* sheet holds the signature section of the first
\* processed sheet and of no other, each of its rows once, below every
\* header, data and total row.
C2_FirstSheetSignatureBlock ==
  (Done /\ config.includeSignature /\ SignatureRowsScanned) =>
    OneSignatureSection(FirstSheet)

\* the signed sheets of two files are merged and the output has data rows
\* of both and a signature block
C2_Witness ==
  /\ Done
  /\ config.includeSignature
  /\ SignatureRowsScanned
  /\ Len(files) = 2
  /\ \E w \in worksheet : w.via = "signature"
  /\ \E w \in worksheet : w.via = "data" /\ w.src[1] = 1
  /\ \E w \in worksheet : w.via = "data" /\ w.src[1] = 2

SourceRow(src) == GetRow(files[src[1]][src[2]], src[3])
SubtotalShaped(row) == isSubtotalRow(row, startColNum, endColNum)

\* every row of every input sheet
SourceRows ==
  {<<fs[1], fs[2], r>> : fs \in SheetIds, r \in 1..MaxRows} \cap
  {src \in (1..MaxFiles) \X (1..MaxSheets) \X (1..MaxRows) :
     /\ <<src[1], src[2]>> \in SheetIds
     /\ src[3] <= Len(SheetOf(<<src[1], src[2]>>))}

(***************************************************************************)
(* C3: with includeTotal = false, a row of an input sheet that has a cell  *)
(* whose trimmed, case-insensitive text is TOTAL, or that passes the       *)
(* subtotal-row test on the configured window, is nowhere in the finished  *)
(* Consolidated sheet: not in the header rows, not among the data rows,    *)
(* not in the signature block.                                             *)
(***************************************************************************)
C3_NoTotalRowAnywhere ==
  (Done /\ ~config.includeTotal) =>
    \A src \in SourceRows :
      (RowHasTotal(SourceRow(src)) \/ SubtotalShaped(SourceRow(src))) => Copies(src) = {}

\* C3 as amended: with includeTotal = false, no row that the data loop
\* writes is its sheet's detected total row (the first row with a TOTAL
\* cell) and none passes the subtotal-row test on the configured window;
\* such rows still reach the output as header rows and inside the signature
\* block, and a later row with a TOTAL cell that is not subtotal-shaped is
\* copied as data.
C3_NoTotalRowFromDataLoop ==
  ~config.includeTotal =>
    \A w \in worksheet :
      w.via \notin {"header", "signature"} =>
        /\ w.src[3] # TotalRowOf(<<w.src[1], w.src[2]>>)
        /\ ~SubtotalShaped(SourceRow(w.src))

\* a finished merge without totals whose data loop met a detected total row
\* and a subtotal-shaped row, and copied a data row after them
C3_Witness ==
  /\ Done
  /\ ~config.includeTotal
  /\ \E fs \in SheetIds :
       /\ TotalRowOf(fs) # None
       /\ TotalRowOf(fs) >= startRowNum
       /\ \E r \in startRowNum..Len(SheetOf(fs)) :
            /\ r # TotalRowOf(fs)
            /\ SubtotalShaped(SheetOf(fs)[r])
            /\ \E w \in worksheet :
                 /\ w.via = "data"
                 /\ <<w.src[1], w.src[2]>> = fs
                 /\ w.src[3] > r
                 /\ w.src[3] > TotalRowOf(fs)

\* the detected total row of sheet fs is in the output once, below the copied
\* data rows that precede it in the sheet and above those that follow it
TotalRowInPlace(fs) ==
  LET total == <<fs[1], fs[2], TotalRowOf(fs)>>
  IN  /\ Cardinality(Copies(total)) = 1
      /\ \A w \in Copies(total) :
           \A d \in worksheet :
             (d.via = "data" /\ <<d.src[1], d.src[2]>> = fs) =>
               /\ d.src[3] < total[3] => d.n < w.n
               /\ d.src[3] > total[3] => d.n > w.n

(***************************************************************************)
(* C4: with includeTotal = true, the detected total row of every processed *)
(* sheet that has one is in the finished Consolidated sheet exactly once,  *)
(* after the copied data rows that preceded it in its sheet and before     *)
(* those that followed it.                                                 *)
(***************************************************************************)
C4_TotalRowOnce ==
  (Done /\ config.includeTotal) =>
    \A fs \in SheetIds : TotalRowOf(fs) # None => TotalRowInPlace(fs)

\* the data loop of sheet fs comes to the detected total row: the row is
\* not above startRow and the sheet has no signature row at or above it
TotalRowScanned(fs) ==
  LET t == TotalRowOf(fs)
      s == SignatureRowOf(fs)
  IN  /\ t # None
      /\ t >= startRowNum
      /\ s = None \/ t < s

\* C4 as amended: with includeTotal = true, the detected total row of a
\* sheet is in the finished Consolidated sheet exactly once, between the
\* copied data rows that surround it in its sheet, when it is not above
\* startRow and the sheet has no signature row at or above it.
C4_ScannedTotalRowOnce ==
  (Done /\ config.includeTotal) =>
    \A fs \in SheetIds : TotalRowScanned(fs) => TotalRowInPlace(fs)

\* a finished merge with totals in which a later sheet's total row stands
\* between two copied data rows
C4_Witness ==
  /\ Done
  /\ config.includeTotal
  /\ \E fs \in SheetIds \ {FirstSheet} :
       /\ TotalRowScanned(fs)
       /\ \E d1, d2 \in worksheet :
            /\ d1.via = "data" /\ <<d1.src[1], d1.src[2]>> = fs
            /\ d2.via = "data" /\ <<d2.src[1], d2.src[2]>> = fs
            /\ d1.src[3] < TotalRowOf(fs)
            /\ d2.src[3] > TotalRowOf(fs)

(***************************************************************************)
(* C5: every cell of the Consolidated sheet that holds a value lies in a   *)
(* column of the configured window, and every copied value sits in the     *)
(* column it had in its source row: output column c of the window holds    *)
(* what source column c extracts to, never a value shifted left.           *)
(***************************************************************************)
C5_ValuesKeepColumn ==
  \A w \in worksheet :
    \A c \in Cols :
      /\ w.cells[c] # Null => c \in startColNum..endColNum
      /\ c \in startColNum..endColNum =>
           w.cells[c] = extractSafeCellValue(SourceRow(w.src)[c])

\* a row copied under a window that starts after column A: its values stand
\* in the window and the source's value in column A is left out
C5_Witness ==
  /\ startColNum > 1
  /\ \E w \in worksheet :
       /\ \E c \in startColNum..endColNum : w.cells[c] # Null
       /\ SourceRow(w.src)[1] # Null
       /\ w.cells[1] = Null

(***************************************************************************)
(* C6: the column codec is a bijection between the column numbers 1..702   *)
(* and the names of one or two letters: a number converted to letters and  *)
(* back is the number, a name converted to a number and back is the name,  *)
(* each conversion lands in the other set, and A is 1, Z is 26, AA is 27.  *)
(***************************************************************************)
C6_CodecBijection ==
  /\ codecPc \in {"number back", "name back"} => codecBack = codecIn
  /\ (codecPc = "letters" /\ codecIn <= 702) =>
       /\ Len(codecOut) \in 1..2
       /\ \A i \in 1..Len(codecOut) : codecOut[i] \in Letters
  /\ (codecPc = "numbered" /\ Len(codecIn) <= 2) => codecOut \in 1..702
  /\ (codecPc = "numbered" /\ codecIn = <<1>>) => codecOut = 1
  /\ (codecPc = "numbered" /\ codecIn = <<26>>) => codecOut = 26
  /\ (codecPc = "numbered" /\ codecIn = <<1, 1>>) => codecOut = 27

\* 702 has gone to ZZ and back
C6_Witness ==
  /\ codecPc = "number back"
  /\ codecIn = 702
  /\ codecOut = <<26, 26>>
  /\ codecBack = 702

\* the sheet of an output row's source
SheetOfRow(w) == <<w.src[1], w.src[2]>>

(***************************************************************************)
(* C7: the data loop scans the rows startRow..lastRow of the first         *)
(* processed sheet and the rows startRow+1..lastRow of every later sheet,  *)
(* so that row startRow of a sheet other than the first processed one is   *)
(* never written to the Consolidated sheet.                                *)
(***************************************************************************)
C7_LaterSheetsSkipStartRow ==
  /\ (pc = "scan" /\ <<fileIdx, sheetIdx>> = FirstSheet) => rowNum >= startRowNum
  /\ (pc = "scan" /\ <<fileIdx, sheetIdx>> # FirstSheet) => rowNum >= startRowNum + 1
  /\ \A w \in worksheet : SheetOfRow(w) # FirstSheet => w.src[3] # startRowNum

(***************************************************************************)
(* C8: rows 1..startRow-1 are copied as header material once per merge,    *)
(* only from the first processed sheet, into output rows 1..startRow-1 and *)
(* before any data row is written; after the header copy the cursor is     *)
(* startRow; no row numbered below startRow of any other sheet is ever     *)
(* written to the output.                                                  *)
(***************************************************************************)
HeaderOnceFromFirstSheet ==
  /\ \A w \in worksheet :
       w.via = "header" => w.src = <<1, 1, w.n>> /\ w.n < startRowNum
  /\ \A w1, w2 \in worksheet :
       (w1.via = "header" /\ w2.via # "header") => w1.seq < w2.seq
  /\ pc \notin {"begin", "file", "sheet", "header"} =>
       \A r \in 1..(startRowNum - 1) : Cardinality(Copies(<<1, 1, r>>)) >= 1
  /\ pc = "header" => targetRowNum = rowNum
  /\ (pc = "scan" /\ isFirstSheet /\ rowNum = startRowNum) => targetRowNum = startRowNum

C8_HeaderOnce ==
  /\ HeaderOnceFromFirstSheet
  /\ \A w \in worksheet : SheetOfRow(w) # FirstSheet => w.src[3] >= startRowNum

\* C8 as amended: rows 1..startRow-1 are copied as header material once per
\* merge, only from the first processed sheet, into output rows
\* 1..startRow-1 and before any data row is written; after the header copy
\* the cursor is startRow; no row numbered below startRow of any other
\* sheet is written by the header loop or the data loop: such a row reaches
\* the output only inside the signature block, when the signature row of its
\* sheet lies above startRow.
C8_HeaderOnceSignatureApart ==
  /\ HeaderOnceFromFirstSheet
  /\ \A w \in worksheet :
       (SheetOfRow(w) # FirstSheet /\ w.src[3] < startRowNum) =>
         LET s == SignatureRowOf(SheetOfRow(w))
         IN  w.via = "signature" /\ s # None /\ s <= w.src[3]

\* a finished merge of two sheets with a header row: the first sheet gave
\* the header, the second sheet has a row above startRow and gave data rows
C8_Witness ==
  /\ Done
  /\ startRowNum > 1
  /\ \E w \in worksheet : w.via = "header"
  /\ \E fs \in SheetIds \ {FirstSheet} :
       \E w \in worksheet : SheetOfRow(w) = fs /\ w.via = "data"

\* processing order of the sheets: file order, then sheet order
SheetBefore(a, b) == a[1] < b[1] \/ (a[1] = b[1] /\ a[2] < b[2])

\* the rows signatureRow..lastRow of sheet fs, in source order
SectionSeq(fs) ==
  LET s == SignatureRowOf(fs)
  IN  [i \in 1..(Len(SheetOf(fs)) - s + 1) |-> <<fs[1], fs[2], s + i - 1>>]

\* sheet fs is the first sheet in which findSignatureRow finds a row
FirstSigned(fs) ==
  /\ SignatureRowOf(fs) # None
  /\ \A gs \in SheetIds : SheetBefore(gs, fs) => SignatureRowOf(gs) = None

\* the data loop of sheet fs meets a row at or below the signature row that
\* is not the detected total row
ReachesSignature(fs) ==
  LET s == SignatureRowOf(fs)
      t == TotalRowOf(fs)
  IN  /\ s # None
      /\ \E r \in startRowNum..Len(SheetOf(fs)) : r >= s /\ r # t

FirstReachingSignature(fs) ==
  /\ ReachesSignature(fs)
  /\ \A gs \in SheetIds : SheetBefore(gs, fs) => ~ReachesSignature(gs)

C10_NoSignatureRows ==
  ~config.includeSignature =>
    /\ signatureRowsToAdd = <<>>
    /\ \A fs \in SheetIds :
         LET s == SignatureRowOf(fs)
         IN  s # None => \A w \in worksheet : SheetOfRow(w) = fs => w.src[3] < s

\* C10 as amended: with includeSignature = false, the signature buffer is
\* empty during the whole merge and no row numbered s or higher of a sheet
\* with detected signature row s is written by the copy of regular data
\* rows or as part of a signature block; such a row is in the Consolidated
\* sheet only as a header row of the first sheet (s above startRow) or as
\* the sheet's detected total row, copied by the total rule.
C10_NoSignatureRowsFromDataLoop ==
  ~config.includeSignature =>
    /\ signatureRowsToAdd = <<>>
    /\ \A fs \in SheetIds :
         LET s == SignatureRowOf(fs)
         IN  s # None =>
               \A w \in worksheet :
                 SheetOfRow(w) = fs =>
                   \/ w.src[3] < s
                   \/ w.via = "header" /\ fs = FirstSheet
                   \/ w.via = "total" /\ w.src[3] = TotalRowOf(fs)

\* a finished merge without signatures: a sheet with rows below its
\* signature row gave the data row above it
C10_Witness ==
  /\ Done
  /\ ~config.includeSignature
  /\ \E fs \in SheetIds :
       /\ SignatureRowOf(fs) # None
       /\ SignatureRowOf(fs) >= startRowNum
       /\ SignatureRowOf(fs) < Len(SheetOf(fs))
       /\ \E w \in worksheet :
            SheetOfRow(w) = fs /\ w.via = "data" /\ w.src[3] < SignatureRowOf(fs)

\* the name of the sheet an output row was copied from
NameOfRow(w) == sheetNames[w.src[1]][w.src[2]]

\* C11: a sheet named "Consolidated" of any input file gives the output no
\* row at all: no header row, data row, total row or signature row of the
\* Consolidated sheet was copied from it, and none of its rows waits in the
\* signature buffer.
C11_ConsolidatedSheetsSkipped ==
  /\ \A w \in worksheet : NameOfRow(w) # Consolidated
  /\ \A i \in DOMAIN signatureRowsToAdd :
       sheetNames[signatureRowsToAdd[i][1]][signatureRowsToAdd[i][2]] # Consolidated

\* the names of the sheets of the workbook whose buffer is returned: the base
\* workbook with its new sheet (line 308), or the rebuilt one (lines 425, 448)
OutputNames ==
  IF cleanWorkbook # <<>> THEN cleanWorkbook.names ELSE sheetNames[1] \o <<Consolidated>>

\* C12: when the first input file already holds a sheet named "Consolidated"
\* (and every file parses), mergeExcelFiles does not throw before it
\* serializes, and the workbook it returns has exactly one sheet named
\* "Consolidated".
C12_OneConsolidatedSheet ==
  (pc # "idle" /\ corrupt = {} /\ Consolidated \in NamesOf(1)) =>
    /\ pc = "failed" => attempts = 2
    /\ pc = "done" =>
         Cardinality({i \in DOMAIN OutputNames : OutputNames[i] = Consolidated}) = 1

\* C13: a request whose files field yields no file is answered with status
\* 400, whatever its config field holds, and mergeExcelFiles is never called
\* for it.
C13_NoFilesRejected ==
  (configData # "none" /\ files = <<>>) =>
    /\ pc = "idle"
    /\ response # NoResponse => response.status = 400

\* C14: when some input file does not parse, mergeExcelFiles never comes to
\* serialize or return a buffer, whatever it has copied from earlier files,
\* and the only response POST gives is status 500 with the error body; a
\* response carries the workbook exactly when its status is 200, and then
\* the merge has run through every file.
C14_ParseFailureIsTerminal ==
  /\ corrupt # {} =>
       /\ pc \notin {"fallback", "rebuilt", "done"}
       /\ attempts = 0
       /\ response # NoResponse => response = [status |-> 500, body |-> "error"]
  /\ response # NoResponse =>
       /\ response.body = "workbook" <=> response.status = 200
       /\ response.status = 200 =>
            /\ pc = "done"
            /\ fileIdx = Len(files) + 1
            /\ corrupt = {}

\* a later file failed to parse after rows of the first had been copied,
\* and the request was answered
C14_Witness ==
  /\ corrupt = {2}
  /\ worksheet # {}
  /\ pc = "failed"
  /\ response.status = 500

\* the values of the cells of the rebuilt workbook
CleanValues ==
  UNION {UNION {{sheet[r][c] : c \in DOMAIN sheet[r]} : r \in DOMAIN sheet} :
           sheet \in {cleanWorkbook.sheets[s] : s \in DOMAIN cleanWorkbook.sheets}}

\* C15: writeBuffer is called at most twice in a call of mergeExcelFiles; the
\* rebuild runs only after the first call has thrown and runs once; no cell
\* of the rebuilt workbook holds a formula or rich-text object; after the
\* second writeBuffer the call has returned or thrown, and nothing is tried
\* again.
C15_OneFallback ==
  /\ attempts \in 0..2
  /\ pc = "fallback" => attempts = 1 /\ cleanWorkbook = <<>>
  /\ pc = "rebuilt" => attempts = 1 /\ cleanWorkbook # <<>>
  /\ cleanWorkbook # <<>> =>
       /\ attempts >= 1
       /\ \A v \in CleanValues : v.t \notin {"formula", "rich"}
  /\ attempts = 2 => pc \in {"done", "failed"} /\ cleanWorkbook # <<>>
  /\ pc = "failed" /\ attempts = 2 /\ response # NoResponse => response.status = 500

\* both writeBuffer calls threw, the rebuilt workbook held the rows of a sheet
\* with formula and rich-text cells, and the request was answered
C15_Witness ==
  /\ attempts = 2
  /\ pc = "failed"
  /\ \E s \in DOMAIN files[1] : \E r \in DOMAIN files[1][s] : files[1][s][r] = DataRow
  /\ \E v \in CleanValues : v # Null
  /\ response.status = 500

IsScalar(v) == v.t \in {"str", "num", "bool", "date"}

\* C17: a value that copyRowWithFormatting assigns to a cell of the output
\* is a plain string, number, boolean or date; for a formula cell the target
\* cell gets the cached result, or is left alone when there is none.
C17_OutputValuesAreScalars ==
  probePc \in {"stored", "extracted again"} =>
    /\ probeCell = Null \/ IsScalar(probeCell)
    /\ probeArg.t = "formula" => probeCell = probeArg.result

\* C18: for a cell holding a plain string, number, boolean or date,
\* extractSafeCellValue returns that very value, and it does so again for
\* the cell its result was assigned to.
C18_ExtractKeepsScalars ==
  IsScalar(probeArg) =>
    /\ probePc = "extracted" => probeResult = probeArg
    /\ probePc = "extracted again" => probeCell = probeArg /\ probeResult = probeArg

\* the text is the word total in any case, with any spaces around it
IsTotalLabel(text) ==
  \E i \in 0..Len(text) : \E j \in 0..Len(text) :
    /\ i + 5 + j = Len(text)
    /\ \A k \in 1..i : text[k] = " "
    /\ \A k \in (Len(text) - j + 1)..Len(text) : text[k] = " "
    /\ \A k \in 1..5 : text[i + k] \in {TotalText[k], <<"t","o","t","a","l">>[k]}

\* the rows with a cell whose value reads as such a label (value.toString():
\* the text of a string cell)
LabelledRows(sheet) ==
  {r \in DOMAIN sheet :
     \E c \in Cols : sheet[r][c] # Null /\ IsTotalLabel(ValueToString(sheet[r][c]))}

\* C19: findTotalRow returns the smallest row number with a cell whose text is
\* TOTAL once trimmed and put in upper case, and none when the sheet has no
\* such cell; a cell that only contains the word does not count.
C19_FirstExactTotal ==
  probePc = "searched" =>
    LET rows == LabelledRows(probeArg)
    IN  IF rows = {} THEN probeResult = None
        ELSE probeResult \in rows /\ \A q \in rows : probeResult <= q

\* a sheet whose first row reads "Total Amount", whose second and third rows
\* read total: the second row is returned
C19_Witness ==
  /\ probePc = "searched"
  /\ Len(probeArg) = 3
  /\ probeArg[1] = OneCellRow(1, Str(<<"T","o","t","a","l"," ","A","m","o","u","n","t">>))
  /\ probeArg[2] = OneCellRow(3, Str(<<" ","t","o","t","a","l"," ">>))
  /\ probeArg[3] = OneCellRow(6, Str(<<"t","O","t","A","l">>))
  /\ probeResult = 2

\* the cells of the window of the row classified that hold a thing of a kind
CountOf(kind) ==
  Cardinality({c \in probeArg.startCol..probeArg.endCol : probeArg.kinds[c] = kind})

\* C20: isSubtotalRow puts every cell of the window in one of three classes
\* (empty, numeric, text), and returns true exactly when at least 70% of
\* the window's cells are empty, one to three are numeric and none is text.
C20_SubtotalRule ==
  probePc = "classified" =>
    LET totalCells == probeArg.endCol - probeArg.startCol + 1
    IN  /\ \A c \in probeArg.startCol..probeArg.endCol :
             CellClass(probeArg.row[c]) = probeArg.kinds[c]
        /\ CountOf("empty") + CountOf("numeric") + CountOf("text") = totalCells
        /\ probeResult <=>
             /\ CountOf("empty") * 10 >= 7 * totalCells
             /\ CountOf("numeric") >= 1
             /\ CountOf("numeric") <= 3
             /\ CountOf("text") = 0

\* a window of ten cells, seven of them empty and three numeric, is a
\* subtotal row
C20_Witness ==
  /\ probePc = "classified"
  /\ probeArg.startCol = 1
  /\ probeArg.endCol = 10
  /\ CountOf("empty") = 7
  /\ CountOf("numeric") = 3
  /\ probeResult = TRUE

\* the letter in either case
EitherCase(ch) ==
  IF IndexIn(ch, LowerChars) # 0 THEN {ch, UpperChars[IndexIn(ch, LowerChars)]} ELSE {ch}

\* the text holds the keyword somewhere, in any mix of cases
HoldsKeyword(text, kw) ==
  \E i \in 1..Len(text) :
    /\ i + Len(kw) - 1 <= Len(text)
    /\ \A j \in 1..Len(kw) : text[i + j - 1] \in EitherCase(kw[j])

\* the rows with a cell whose value reads (value.toString()) as a text that
\* holds one of the keywords
KeywordRows(sheet) ==
  {r \in DOMAIN sheet :
     \E c \in Cols : \E k \in DOMAIN signatureKeywords :
       sheet[r][c] # Null /\ HoldsKeyword(ValueToString(sheet[r][c]), signatureKeywords[k])}

\* C21: findSignatureRow returns the smallest row number with a cell whose
\* text holds one of the keywords, whatever the case of its letters and the
\* blanks around it, and none when the sheet has no such cell.
C21_FirstKeywordRow ==
  probePc = "signature searched" =>
    LET rows == KeywordRows(probeArg)
    IN  IF rows = {} THEN probeResult = None
        ELSE probeResult \in rows /\ \A q \in rows : probeResult <= q

\* a sheet whose first row reads "Sign here", whose second row reads
\* " CHỮ KÝ " and whose third row reads "Người nhận": the second is returned
C21_Witness ==
  /\ probePc = "signature searched"
  /\ Len(probeArg) = 3
  /\ probeArg[1] = OneCellRow(3, Str(<<"S","i","g","n"," ","h","e","r","e">>))
  /\ probeArg[2] = OneCellRow(5, Str(<<" ","C","H","Ữ"," ","K","Ý"," ">>))
  /\ probeArg[3] = OneCellRow(2, Str(<<"N","g","ư","ờ","i"," ","n","h","ậ","n">>))
  /\ probeResult = 2

\* C22: a config handed to mergeExcelFiles has startRow >= 1 and a start
\* column that is not to the right of its end column.
C22_ConfigInvariant ==
  pc = "begin" =>
    /\ config.startRow >= 1
    /\ columnLetterToNumber(config.startColumn) <= columnLetterToNumber(config.endColumn)

\* the source row src stands in the signature buffer
InBuffer(src) == \E i \in DOMAIN signatureRowsToAdd : signatureRowsToAdd[i] = src

\* the rows the data loop wrote: by the total rule or by the plain copy
ScanWritten == {w \in worksheet : w.via \in {"total", "data"}}

(***************************************************************************)
(* C23 as stated: every scanned row is handled by exactly one of the four  *)
(* rules, so that no source row is both written to the Consolidated sheet  *)
(* by the total rule or the plain copy and captured into the signature     *)
(* buffer.                                                                 *)
(***************************************************************************)
C23_WrittenRowsNotCaptured == \A w \in ScanWritten : ~InBuffer(w.src)

\* C23 as amended: each scanned row is handled by one rule, the rules tested
\* in the order total, signature, subtotal, plain copy: a row is written by
\* the total rule exactly if it is its sheet's detected total row (and then
\* includeTotal is set), a row written by the plain copy stands above its
\* sheet's signature row, is no skipped subtotal row and is never captured
\* into the signature buffer, and no source row is written twice by the
\* loop.  The one row that may be both written and captured is a detected
\* total row at or below its sheet's signature row.
C23_OneRulePerRow ==
  \A w \in ScanWritten :
    LET fs == SheetOfRow(w)
        r == w.src[3]
        t == TotalRowOf(fs)
        s == SignatureRowOf(fs)
    IN  /\ r >= startRowNum
        /\ (w.via = "total") <=> (r = t)
        /\ w.via = "total" => config.includeTotal
        /\ w.via = "data" =>
             /\ s = None \/ r < s
             /\ ~(~config.includeTotal /\ SubtotalShaped(SourceRow(w.src)))
             /\ ~InBuffer(w.src)
        /\ \A v \in ScanWritten : v.src = w.src => v = w
        /\ InBuffer(w.src) => s # None /\ r = t /\ t >= s

\* a merge is over in which a total row was written by the total rule and
\* captured with the signature section, next to a row written by plain copy
C23_Witness ==
  /\ Done
  /\ \E w \in ScanWritten : w.via = "total" /\ InBuffer(w.src)
  /\ \E w \in ScanWritten : w.via = "data"

\* the columns of the window of the sheet searched
DetectWindow ==
  columnLetterToNumber(probeArg.startColumn)..columnLetterToNumber(probeArg.endColumn)

\* row r of the sheet searched has, in one of the columns cols, a cell that
\* reads as a TOTAL label / that holds a signature keyword
TotalLabelIn(r, cols) ==
  \E c \in cols \cap Cols :
    LET v == probeArg.sheet[r][c] IN v # Null /\ IsTotalLabel(ValueToString(v))
KeywordIn(r, cols) ==
  \E c \in cols \cap Cols : \E k \in DOMAIN signatureKeywords :
    LET v == probeArg.sheet[r][c]
    IN  v # Null /\ HoldsKeyword(ValueToString(v), signatureKeywords[k])

(***************************************************************************)
(* C24 as stated: the detection of the total row and of the signature row  *)
(* reads the cells of the column window alone: the detected total row has  *)
(* its TOTAL cell inside the window, the detected signature row has its    *)
(* keyword cell inside the window.                                         *)
(***************************************************************************)
C24_DetectionInsideWindow ==
  probePc = "detected" =>
    /\ probeResult.totalRowNum # None =>
         TotalLabelIn(probeResult.totalRowNum, DetectWindow)
    /\ probeResult.signatureRowNum # None =>
         KeywordIn(probeResult.signatureRowNum, DetectWindow)

\* C24 as amended: the detection of the total row and of the signature row
\* reads every cell of the sheet, whatever the column window of the config:
\* the detected row is the first row with a TOTAL cell (a keyword cell) in
\* any column, and a sheet has none only if no column of any row holds one.
C24_DetectionIgnoresWindow ==
  probePc = "detected" =>
    LET totals == {r \in DOMAIN probeArg.sheet : TotalLabelIn(r, Cols)}
        signed == {r \in DOMAIN probeArg.sheet : KeywordIn(r, Cols)}
        t == probeResult.totalRowNum
        s == probeResult.signatureRowNum
    IN  /\ IF totals = {} THEN t = None ELSE t \in totals /\ \A q \in totals : t <= q
        /\ IF signed = {} THEN s = None ELSE s \in signed /\ \A q \in signed : s <= q

\* under the window C..D a sheet with " Total" in column A of row 1 and a
\* keyword in column F of row 2 has the total row 1 and the signature row 2
C24_Witness ==
  /\ probePc = "detected"
  /\ DetectWindow = 3..4
  /\ probeResult.totalRowNum = 1
  /\ probeResult.signatureRowNum = 2
  /\ ~TotalLabelIn(1, DetectWindow)
  /\ ~KeywordIn(2, DetectWindow)

\* the ranges of the source sheet of the call: those whose reference stands
\* in its merges
ListedRanges ==
  {range \in SourceRanges :
     \E i \in DOMAIN probeArg.merges : probeArg.merges[i] = RangeRef(range)}

\* the range lies in the rows and the columns of the call
Contained(range) ==
  /\ probeArg.sourceRowStart <= range.top /\ range.bottom <= probeArg.sourceRowEnd
  /\ probeArg.startCol <= range.left /\ range.right <= probeArg.endCol

\* the range moved down by targetRowOffset - sourceRowStart rows
Translated(range) ==
  LET by == probeArg.targetRowOffset - probeArg.sourceRowStart
  IN  [range EXCEPT !.top = @ + by, !.bottom = @ + by]

\* the range meets a merge the target sheet held before the call
Collides(range) == \E m \in probeArg.targetMerges : Intersects(m, range)

(***************************************************************************)
(* C25: when copyMergedCells is over, the target sheet holds the merges it *)
(* held before and, in addition, exactly the ranges of the source sheet    *)
(* that lie within the rows sourceRowStart..sourceRowEnd and the columns   *)
(* startCol..endCol, each with its columns unchanged and its rows moved by *)
(* targetRowOffset - sourceRowStart, but for those that meet a merge of    *)
(* the target sheet: a range that crosses the bounds and an entry that is  *)
(* no range reference create nothing, and a collision stops neither the    *)
(* ranges after it nor the call.  No merge is ever removed.                *)
(***************************************************************************)
C25_ContainedRangesRecreated ==
  /\ probePc \in {"merges", "merged"} => probeArg.targetMerges \subseteq probeResult
  /\ probePc = "merged" =>
       probeResult = probeArg.targetMerges \cup
         {Translated(range) : range \in
            {r \in ListedRanges : Contained(r) /\ ~Collides(Translated(r))}}

\* a call is over in which the first range met a merge of the target sheet
\* and the second one was recreated one row lower
C25_Witness ==
  /\ probePc = "merged"
  /\ probeArg.merges = <<RangeRef(Range(1, 3, 2, 4)), RangeRef(Range(1, 1, 1, 2))>>
  /\ probeArg.sourceRowStart = 1
  /\ probeArg.targetRowOffset = 2
  /\ probeArg.targetMerges = {Range(2, 3, 3, 3)}
  /\ probeResult = {Range(2, 3, 3, 3), Range(2, 1, 2, 2)}

\* the output rows written so far
WrittenRows == {w.n : w \in worksheet}

\* one step of the merge as the cursor sees it: the call sets it to 1, and
\* from then on a step either writes one row, at the cursor, beside the rows
\* written before, and moves the cursor one row down, or writes nothing and
\* leaves the cursor where it is
CursorStep ==
  IF pc = "begin"
  THEN targetRowNum' = 1 /\ worksheet' = worksheet
  ELSE IF worksheet' # worksheet
       THEN /\ targetRowNum' = targetRowNum + 1
            /\ \E w \in worksheet' :
                 /\ w.n = targetRowNum
                 /\ w \notin worksheet
                 /\ worksheet' = worksheet \cup {w}
       ELSE targetRowNum' = targetRowNum

(***************************************************************************)
(* C26: the cursor targetRowNum starts at 1, never decreases and moves by  *)
(* exactly one row for each row written; at every point of the merge the   *)
(* rows written so far are the output rows 1..targetRowNum-1, each written *)
(* once, in the order of their numbers: no row is overwritten and no gap   *)
(* is left.                                                                *)
(***************************************************************************)
C26_CursorIsNextFreeRow ==
  /\ [](pc # "begin" =>
          /\ targetRowNum >= 1
          /\ WrittenRows = 1..(targetRowNum - 1)
          /\ Cardinality(worksheet) = targetRowNum - 1
          /\ \A w \in worksheet : w.seq = w.n)
  /\ [][CursorStep]_vars

\* a merge is over that wrote a header row, a data row and a signature row:
\* the cursor stands below them
C26_Witness ==
  /\ Done
  /\ \A via \in {"header", "data", "signature"} : \E w \in worksheet : w.via = via
  /\ targetRowNum = Cardinality(worksheet) + 1
  /\ targetRowNum >= 4

(***************************************************************************)
(* C27: a row of the Consolidated sheet that was copied from a source row  *)
(* with a height of its own, as a header, data, total or signature row,    *)
(* has that height.                                                        *)
(***************************************************************************)
C27_RowHeightCopied ==
  \A w \in worksheet :
    RowHeight(SourceRow(w.src)) # 0 => w.height = RowHeight(SourceRow(w.src))

\* mergeExcelFiles has returned its buffer or thrown
MergeEnded == pc \in {"done", "failed"}

\* the sheet the signature buffer was captured from
CapturedSheet == files[signatureRowsToAdd[1][1]][signatureRowsToAdd[1][2]]

\* a turn of the data scan that stays in the scan has handled a row of the
\* sheet, rowNum <= lastRow, and goes on with the next row
ScanTurn == pc = "scan" /\ pc' = "scan" => rowNum <= lastRow /\ rowNum' = rowNum + 1

\* a turn of the while loop takes num closer to 0
LetterTurn ==
  codecPc = "loop" /\ codecPc' = "loop" => codecBack > 0 /\ codecBack' < codecBack

(***************************************************************************)
(* C28: a call of mergeExcelFiles on its files and config comes to an end, *)
(* with a buffer returned or with a failure.  The data scan of a sheet     *)
(* takes the rows startRow..lastRow one by one, at most lastRow turns, the *)
(* signature capture pushes at most lastRow rows, the loops over the files *)
(* and the sheets stay within the files and the sheets, and the while loop *)
(* of columnNumberToLetter comes to its end for every integer.             *)
(***************************************************************************)
C28_CallsEnd ==
  /\ (pc = "begin") ~> MergeEnded
  /\ (codecPc = "loop") ~> (codecPc = "returned")
  /\ [](pc = "scan" => 1 <= rowNum /\ rowNum <= lastRow + 1)
  /\ [](signatureRowsToAdd # <<>> => Len(signatureRowsToAdd) <= Len(CapturedSheet))
  /\ [](pc \in {"file", "sheet", "header", "scan"} => fileIdx <= Len(files) + 1)
  /\ [](pc \in {"sheet", "header", "scan"} =>
          fileIdx <= Len(files) /\ sheetIdx <= Len(files[fileIdx]) + 1)
  /\ [][ScanTurn]_vars
  /\ [][LetterTurn]_vars

\* a merge of two files that scanned rows and captured a signature section
\* is over
C28_Witness ==
  /\ MergeEnded
  /\ Len(files) = 2
  /\ signatureRowsToAdd # <<>>
  /\ \E w \in worksheet : w.via = "data"

\* the window of the config of the merge is at most three columns wide
NarrowWindow == endColNum - startColNum + 1 <= 3

\* the rows of the sheet of a one-sheet call that the data loop reaches and
\* that neither the total rule nor the signature rule takes
RowsLeftToSubtotalRule ==
  {r \in startRowNum..Len(files[1][1]) :
     /\ r # TotalRowOf(FirstSheet)
     /\ SignatureRowOf(FirstSheet) = None \/ r < SignatureRowOf(FirstSheet)}

(***************************************************************************)
(* C29: under a window of at most three columns isSubtotalRow returns      *)
(* false whatever the row holds; a merge with includeTotal = false under   *)
(* such a window therefore copies every row the data loop reaches that is  *)
(* neither the detected total row nor at or below the signature row: the   *)
(* subtotal rule removes none.                                             *)
(***************************************************************************)
C29_NarrowWindowNoSubtotal ==
  /\ probePc = "classified" =>
       (probeArg.endCol - probeArg.startCol + 1 <= 3 => probeResult = FALSE)
  /\ pc = "scan" /\ rowNum <= lastRow /\ NarrowWindow => ~IsSkippedSubtotal
  /\ Done /\ NarrowWindow /\ ~config.includeTotal =>
       \A r \in RowsLeftToSubtotalRule :
         \E w \in worksheet : w.via = "data" /\ w.src = <<1, 1, r>>

\* a merge without totals under the window B..D is over: it copied a row of
\* which two of the three cells in the window are empty and one is a figure
C29_Witness ==
  /\ Done
  /\ ~config.includeTotal
  /\ startColNum = 2 /\ endColNum = 4
  /\ \E w \in worksheet : w.via = "data" /\ SourceRow(w.src) = SubtotalRow

\* the rows of sheet fs the data loop scans: from the first row of the loop
\* to the last row of the sheet
ScannedRange(fs) == DataStartRow..Len(SheetOf(fs))

\* the number of rows scanned in the sheets of S
RECURSIVE ScannedCount(_)
ScannedCount(S) ==
  IF S = {} THEN 0
  ELSE LET fs == CHOOSE x \in S : TRUE
       IN  Cardinality(ScannedRange(fs)) + ScannedCount(S \ {fs})

\* the copies of a source row written by the data loop
ScanCopies(src) == {w \in ScanWritten : w.src = src}

(***************************************************************************)
(* C30: with includeTotal = true and no sheet with a detected signature    *)
(* row, a merge drops nothing and writes nothing twice: when it is over,   *)
(* every row of the scanned range of every sheet has been written once by  *)
(* the data loop, the Consolidated sheet holds startRow-1 header rows and  *)
(* as many other rows as the scanned ranges have rows together, and the    *)
(* cursor stands one row below them.                                       *)
(***************************************************************************)
C30_NothingDroppedOrDuplicated ==
  (Done /\ config.includeTotal /\ \A fs \in SheetIds : SignatureRowOf(fs) = None) =>
    /\ \A fs \in SheetIds : \A r \in ScannedRange(fs) :
         Cardinality(ScanCopies(<<fs[1], fs[2], r>>)) = 1
    /\ \A w \in ScanWritten : w.src[3] \in ScannedRange(SheetOfRow(w))
    /\ Cardinality({w \in worksheet : w.via = "header"}) = startRowNum - 1
    /\ Cardinality(worksheet) = (startRowNum - 1) + ScannedCount(SheetIds)
    /\ targetRowNum = (startRowNum - 1) + ScannedCount(SheetIds) + 1

\* such a merge of two sheets is over, with a header row, a total row and a
\* row that looks like a group total among its rows
C30_Witness ==
  /\ Done
  /\ config.includeTotal
  /\ \A fs \in SheetIds : SignatureRowOf(fs) = None
  /\ Cardinality(SheetIds) = 2
  /\ startRowNum = 2
  /\ \E w \in worksheet : w.via = "total"
  /\ \E w \in worksheet : w.via = "data" /\ SubtotalShaped(SourceRow(w.src))
====
